---- MODULE Spec2Model ----
(***************************************************************************)
(* A model of the resumable batch-migration engine of get-convex/migrations *)
(* : the component mutations of src/src/component/lib.ts (migrate, cancel), *)
(* the migration wrapper of src/src/client/index.ts (define), and the       *)
(* scheduler and document store they run against.                           *)
(*                                                                          *)
(* Every Convex mutation is one serialisable transaction, so each handler   *)
(* is one atomic action.  A scheduled function is pending, is then picked   *)
(* up by the scheduler (inProgress) and then runs its handler.              *)
(***************************************************************************)
EXTENDS Integers, Sequences, FiniteSets, TLC

\* ---------------------------------------------------------------- bounds

\* Number of documents in each migrated table.
NumDocs == 2
\* Number of scheduled functions the scheduler table may hold.
MaxTasks == 2
\* Largest value of the clock read by Date.now().
MaxTime == 1
\* Number of calls of lib.migrate by callers (runOne, runSerially, ...).
MaxCalls == 2

\* ------------------------------------------------------------- encodings

\* JavaScript `undefined` for an optional cursor, batchSize, latestEnd.
Undefined == -2
\* The `null` cursor (start of the table).
Null == -1
\* `workerId: undefined`.
NoWorker == 0

\* Migration names (getFunctionName of the migration functions).
Names == {"A", "B"}

\* Positions of the documents of a table, in the order paginate reads them.
Docs == 1..NumDocs

\* A continuation cursor is the number of documents already read.
Cursors == 0..NumDocs
\* A cursor string that is no cursor of the table's query.
BadCursor == NumDocs + 1

\* Handles.  "function://<path>" is what createFunctionHandle returns.
Handle(n) == [scheme |-> "function://", path |-> n]
MissingHandle == [scheme |-> "function://", path |-> "missing"]
InvalidHandle == [scheme |-> "", path |-> "invalid_handle"]

\* Error messages.  NoError stands for `error: undefined`.
NoError == ""
\* The message of `new Error()`: the empty string, which JavaScript treats
\* as false in a condition.
EmptyMsg == "(empty string)"
BatchSizeMsg == "Batch size must be greater than 0"
InvalidFnHandleMsg == "Invalid fnHandle"
TransformMsg == "This migration fails after the first"
PaginateMsg == "InvalidCursor"
NotFoundMsg == "Could not find function"
RollbackMsg == "Error: Dry run attempted to update state - rolling back transaction."
CancelNotFoundMsg == "Migration not found"

\* batchSize the migrations are defined with (failingMigration).
functionDefaultBatchSize == 1

VARIABLES
    migrations,  \* the component's "migrations" table: name -> row
    sched,       \* _scheduled_functions: sequence of tasks, id = index
    patched,     \* per migration, the documents its migrateOne has updated
    now,         \* the clock
    calls,       \* number of calls of lib.migrate made by callers
    last,        \* what the last transaction did (history)
    rtc,         \* the runToCompletion loop of a caller: position and locals
    pg           \* the handler of a defined migration: position and locals

vars == <<migrations, sched, patched, now, calls, last, rtc, pg>>

\* No runToCompletion has been called.
NoLoop ==
    [pc |-> "idle", name |-> "", cursor |-> Undefined, batchSize |-> Undefined,
     dryRun |-> FALSE, iterations |-> 0, failed |-> 0, msg |-> "",
     isDone |-> FALSE, processed |-> 0, busy |-> FALSE, fromStart |-> FALSE]

\* No handler of a defined migration is running.  `args` are the arguments
\* of the call, `cursor` and `dryRun` what they were settled to, `msg` the
\* message of the error thrown; `plan` is what migrateOne
\* does for each document, `at` the position of doOne for each document of
\* the page, `local` the value a migrateOne has read, `shared` a value the
\* migrateOne functions read and write, `changed` the documents patched.
NoPage ==
    [pc |-> "idle", parallelize |-> FALSE, dryRun |-> FALSE, cursor |-> Undefined,
     plan |-> <<>>, at |-> <<>>, local |-> <<>>, shared |-> 0, changed |-> {},
     processed |-> Undefined, msg |-> "",
     args |-> [fn |-> FALSE, cursor |-> Undefined, batchSize |-> Undefined,
               dryRun |-> "unset", next |-> Undefined]]

\* ------------------------------------------------------------------ rows

NoRow ==
    [exists |-> FALSE, cursor |-> Null, isDone |-> FALSE, processed |-> 0,
     latestStart |-> 0, latestEnd |-> Undefined, error |-> NoError,
     workerId |-> NoWorker, creationTime |-> 0]

\* db.insert("migrations", {...}) of migrate, step 1.
NewRow(args, t) ==
    [exists |-> TRUE,
     cursor |-> IF args.cursor = Undefined THEN Null ELSE args.cursor,
     isDone |-> FALSE, processed |-> 0,
     latestStart |-> t, latestEnd |-> Undefined, error |-> NoError,
     workerId |-> NoWorker, creationTime |-> t]

NoTask == [fn |-> "none", kind |-> "none", args |-> <<>>]

\* ctx.db.system.get(workerId)
SystemGet(sch, id) ==
    IF id # NoWorker /\ id \in 1..Len(sch) THEN sch[id] ELSE NoTask

\* ctx.scheduler.runAfter(0, fn, args)
RunAfter(sch, fn, args) ==
    Append(sch, [fn |-> fn, kind |-> "pending", args |-> args])

\* ctx.scheduler.cancel(id)
SchedulerCancel(sch, id) ==
    IF id \in 1..Len(sch) /\ sch[id].kind \in {"pending", "inProgress"}
    THEN [sch EXCEPT ![id].kind = "canceled"]
    ELSE sch

Min(a, b) == IF a < b THEN a ELSE b


\* ------------------------------------------------- the migration wrapper

\* A page result {continueCursor, isDone, processed}.
Result(c, d, n) == [continueCursor |-> c, isDone |-> d, processed |-> n]
NoResult == Result(0, FALSE, 0)

\* range.paginate({cursor, numItems}): the page read from `cursor`.
\* `tight` is the store's choice, when a full page ends exactly at the end
\* of the table, between reporting isDone with it or with a later empty page.
PageStart(cursor) == IF cursor = Null THEN 0 ELSE cursor
PageEnd(cursor, numItems) == Min(PageStart(cursor) + numItems, NumDocs)
Page(cursor, numItems) == (PageStart(cursor) + 1)..PageEnd(cursor, numItems)
PageIsDone(cursor, numItems, tight) ==
    LET len == PageEnd(cursor, numItems) - PageStart(cursor)
    IN IF len < numItems THEN TRUE ELSE tight /\ PageEnd(cursor, numItems) = NumDocs

\* The handler of a migration made by `define`, called by the component with
\* {cursor, batchSize, dryRun}.  migrateOne raises for the documents at
\* positions >= failFrom in this call (NumDocs + 1: for none); it returns a
\* non-empty update for the others.  A raise aborts the page: the writes of
\* the nested mutation are rolled back.
DefineHandler(table, margs, pat, failFrom, tight) ==
    LET numItems == IF margs.batchSize = Undefined \/ margs.batchSize = 0
                    THEN functionDefaultBatchSize ELSE margs.batchSize
        page == Page(margs.cursor, numItems)
        result == Result(PageEnd(margs.cursor, numItems),
                         PageIsDone(margs.cursor, numItems, tight),
                         Cardinality(page))
    IN IF margs.cursor \notin Cursors \cup {Null}
       THEN [kind |-> "error", msg |-> PaginateMsg, result |-> NoResult, patched |-> pat]
       ELSE IF \E d \in page : d >= failFrom
       THEN [kind |-> "error", msg |-> TransformMsg, result |-> NoResult, patched |-> pat]
       ELSE IF margs.dryRun
       THEN [kind |-> "dryRun", msg |-> NoError, result |-> result, patched |-> pat]
       ELSE [kind |-> "ok", msg |-> NoError, result |-> result,
             patched |-> [pat EXCEPT ![table] = @ \cup page]]

\* ctx.runMutation(fnHandle, {cursor, batchSize, dryRun})
RunMutation(fnHandle, margs, pat, failFrom, tight) ==
    IF fnHandle.path \notin DOMAIN pat
    THEN [kind |-> "error", msg |-> NotFoundMsg, result |-> NoResult, patched |-> pat]
    ELSE DefineHandler(fnHandle.path, margs, pat, failFrom, tight)

\* ------------------------------------------------------ status projection

NextNames(next) == [i \in 1..Len(next) |-> next[i].name]

\* `migration.error || ...`: undefined and the empty string are false.
Truthy(error) == error # NoError /\ error # EmptyMsg

StateOf(migration, worker) ==
    IF migration.isDone THEN "success"
    ELSE IF Truthy(migration.error) \/ worker.kind = "failed" THEN "failed"
    ELSE IF worker.kind = "canceled" THEN "canceled"
    ELSE IF worker.kind = "inProgress" \/ worker.kind = "pending" THEN "inProgress"
    ELSE "unknown"

getMigrationState(name, migration, sch) ==
    LET worker == SystemGet(sch, migration.workerId)
        hasArgs == worker.kind # "none" /\ worker.fn = "migrate"
    IN [name |-> name,
        cursor |-> migration.cursor,
        processed |-> migration.processed,
        isDone |-> migration.isDone,
        latestStart |-> migration.latestStart,
        latestEnd |-> migration.latestEnd,
        error |-> migration.error,
        state |-> StateOf(migration, worker),
        batchSize |-> IF hasArgs THEN worker.args.batchSize ELSE Undefined,
        next |-> IF hasArgs THEN NextNames(worker.args.next) ELSE <<>>]

NoStatus == getMigrationState("", NoRow, <<>>)


\* ------------------------------------------------------- lib.ts: migrate

\* The outcome of a mutation: it returns (and its writes commit) or throws
\* (and its writes are rolled back).  `ran` is the cursor the migration
\* function was called with, Undefined when it was not called.
Outcome(kind, msg, status, migs, sch, pat, ran) ==
    [kind |-> kind, msg |-> msg, status |-> status,
     migrations |-> migs, sched |-> sch, patched |-> pat, ran |-> ran]

\* A variant of updateState that never sets latestEnd.
updateStateWithoutEnd(state, result, t) ==
    [state EXCEPT !.cursor = result.continueCursor,
                  !.isDone = result.isDone,
                  !.processed = @ + result.processed]

\* function updateState(result)
updateState(state, result, t) ==
    [state EXCEPT !.cursor = result.continueCursor,
                  !.isDone = result.isDone,
                  !.processed = @ + result.processed,
                  !.latestEnd = IF result.isDone /\ @ = Undefined THEN t ELSE @]

\* A variant of the cursor reset that keeps the count of processed documents.
ResetCursorKeepsProcessed(state, cursor, t) ==
    [state EXCEPT !.cursor = cursor, !.isDone = FALSE, !.latestStart = t,
                  !.latestEnd = Undefined]

\* A variant of the cursor reset that keeps latestEnd.
ResetCursorKeepsEnd(state, cursor, t) ==
    [state EXCEPT !.cursor = cursor, !.isDone = FALSE, !.latestStart = t,
                  !.processed = 0]

\* Case 2 of step 1: the cursor argument is set and differs.
ResetCursor(state, cursor, t) ==
    [state EXCEPT !.cursor = cursor, !.isDone = FALSE, !.latestStart = t,
                  !.latestEnd = Undefined, !.processed = 0]

\* A variant of the scan of the series that never skips a migration.
FirstOfNext(next, migs) ==
    IF Len(next) = 0 THEN 0 ELSE 1

\* The index of the first migration of `next` that has no row or is not
\* done, 0 when there is none.
FirstNotDone(next, migs) ==
    LET open == {i \in 1..Len(next) :
                    ~migs[next[i].name].exists \/ ~migs[next[i].name].isDone}
    IN IF open = {} THEN 0 ELSE CHOOSE i \in open : \A j \in open : i <= j

\* Arguments of the migrate scheduled for the next migration of a series.
SeriesArgs(args, i) ==
    [name |-> args.next[i].name, fnHandle |-> args.next[i].fnHandle,
     cursor |-> Undefined, batchSize |-> args.batchSize, oneBatchOnly |-> FALSE,
     next |-> SubSeq(args.next, i + 1, Len(args.next)), dryRun |-> args.dryRun]

\* A variant of step 3 that reschedules the worker with the cursor of its
\* own arguments instead of the cursor of the row.
ScheduleNextWithOldCursor(args, state, migs, sch) ==
    IF args.oneBatchOnly
    THEN [state |-> [state EXCEPT !.workerId = NoWorker], sched |-> sch]
    ELSE IF ~state.isDone
    THEN [state |-> [state EXCEPT !.workerId = Len(sch) + 1],
          sched |-> RunAfter(sch, "migrate", args)]
    ELSE [state |-> [state EXCEPT !.workerId = NoWorker], sched |-> sch]

\* A variant of step 3 that moves on to the next migration of the series
\* after every page, done or not.
ScheduleNextBeforeDone(args, state, migs, sch) ==
    IF args.oneBatchOnly
    THEN [state |-> [state EXCEPT !.workerId = NoWorker], sched |-> sch]
    ELSE LET i == FirstNotDone(args.next, migs)
         IN [state |-> [state EXCEPT !.workerId = NoWorker],
             sched |-> IF i = 0 THEN sch
                       ELSE RunAfter(sch, "migrate", SeriesArgs(args, i))]

\* A variant of step 3 that reschedules the worker even for one batch only.
ScheduleNextIgnoringOneBatch(args, state, migs, sch) ==
    IF ~state.isDone
    THEN [state |-> [state EXCEPT !.workerId = Len(sch) + 1],
          sched |-> RunAfter(sch, "migrate", [args EXCEPT !.cursor = state.cursor])]
    ELSE [state |-> [state EXCEPT !.workerId = NoWorker], sched |-> sch]

\* A variant of step 3 that reschedules the worker without the rest of the
\* series.
ScheduleNextDropsSeries(args, state, migs, sch) ==
    IF args.oneBatchOnly
    THEN [state |-> [state EXCEPT !.workerId = NoWorker], sched |-> sch]
    ELSE IF ~state.isDone
    THEN [state |-> [state EXCEPT !.workerId = Len(sch) + 1],
          sched |-> RunAfter(sch, "migrate",
                             [args EXCEPT !.cursor = state.cursor, !.next = <<>>])]
    ELSE [state |-> [state EXCEPT !.workerId = NoWorker], sched |-> sch]

\* A variant of step 3 that never schedules the next batch.
ScheduleNextNoWorker(args, state, migs, sch) ==
    IF args.oneBatchOnly \/ ~state.isDone
    THEN [state |-> [state EXCEPT !.workerId = NoWorker], sched |-> sch]
    ELSE LET i == FirstNotDone(args.next, migs)
         IN [state |-> [state EXCEPT !.workerId = NoWorker],
             sched |-> IF i = 0 THEN sch
                       ELSE RunAfter(sch, "migrate", SeriesArgs(args, i))]

\* Step 3: schedule the next batch or the next migration.
ScheduleNext(args, state, migs, sch) ==
    IF args.oneBatchOnly
    THEN [state |-> [state EXCEPT !.workerId = NoWorker], sched |-> sch]
    ELSE IF ~state.isDone
    THEN [state |-> [state EXCEPT !.workerId = Len(sch) + 1],
          sched |-> RunAfter(sch, "migrate", [args EXCEPT !.cursor = state.cursor])]
    ELSE LET i == FirstNotDone(args.next, migs)
         IN [state |-> [state EXCEPT !.workerId = NoWorker],
             sched |-> IF i = 0 THEN sch
                       ELSE RunAfter(sch, "migrate", SeriesArgs(args, i))]

\* A variant of the live-worker test that forgets pending workers.
AlreadyRunningOnlyInProgress(state, args, sch) ==
    /\ state.cursor # args.cursor
    /\ SystemGet(sch, state.workerId).kind = "inProgress"

\* A variant of the live-worker test that never finds a live worker.
AlreadyRunningNever(state, args, sch) == FALSE

\* Case 3 of step 1: another instance is pending or in progress.
AlreadyRunning(state, args, sch) ==
    /\ state.cursor # args.cursor
    /\ SystemGet(sch, state.workerId).kind \in {"pending", "inProgress"}

\* A variant of the reset test that also resets on an unset cursor argument.
NeedsResetOnAnyDifference(state, args) ==
    state.cursor # args.cursor

\* Case 2 of step 1 applies when the cursor argument is set and differs.
NeedsReset(state, args) ==
    state.cursor # args.cursor /\ args.cursor # Undefined

\* A variant of step 2 that runs the migration function even when done.
ShouldRunAlways(state) == TRUE

\* Step 2 runs the migration function unless the migration is done.
ShouldRun(state) == ~state.isDone

\* A variant of step 4 in which a dry run returns instead of throwing.
RollsBackNever(args) == FALSE

\* Step 4: a dry run that reaches the patch throws, to roll back.
RollsBack(args) == args.dryRun

\* A variant of the catch block that leaves the worker id in the row.
CaughtKeepsWorker(args, state, r, t) ==
    IF args.dryRun /\ r.kind = "dryRun"
    THEN updateState([state EXCEPT !.workerId = NoWorker], r.result, t)
    ELSE [state EXCEPT !.error = r.msg]

\* A variant of the catch block that does not record the error.
CaughtWithoutError(args, state, r, t) ==
    LET cleared == [state EXCEPT !.workerId = NoWorker]
    IN IF args.dryRun /\ r.kind = "dryRun"
       THEN updateState(cleared, r.result, t)
       ELSE cleared

\* The catch block of step 2 and 3.
Caught(args, state, r, t) ==
    LET cleared == [state EXCEPT !.workerId = NoWorker]
    IN IF args.dryRun /\ r.kind = "dryRun"
       THEN updateState(cleared, r.result, t)
       ELSE [cleared EXCEPT !.error = r.msg]

\* A variant of the input validation that accepts everything.
ValidationErrorNone(args) == NoError

\* The input validation at the top of the handler: the message of the
\* error it throws, NoError when it passes.
ValidationError(args) ==
    IF args.batchSize # Undefined /\ args.batchSize <= 0 THEN BatchSizeMsg
    ELSE IF args.fnHandle.scheme # "function://" THEN InvalidFnHandleMsg
    ELSE NoError

\* The value of a singleton set.  `The({body : x \in {v}})` is the body
\* with x bound to the value of v, as `const x = v; body`.
The(S) == CHOOSE y \in S : TRUE

\* Steps 2 to 4, from the row `state` as step 1 left it and the result r of
\* the call of the migration function.
RunAndSchedule(args, migs, sch, pat, t, state, r) ==
    LET db == [migs EXCEPT ![args.name] = state]
        ran == IF ShouldRun(state) THEN state.cursor ELSE Undefined
    IN  IF ~ShouldRun(state) \/ r.kind = "ok"
        THEN The({The({
                 LET pat2 == IF ShouldRun(state) THEN r.patched ELSE pat
                     db4 == [db EXCEPT ![args.name] = s3.state]
                 IN  IF RollsBack(args)
                     THEN Outcome("error", RollbackMsg, NoStatus, db4, s3.sched, pat2, ran)
                     ELSE Outcome("return", NoError,
                                  getMigrationState(args.name, s3.state, s3.sched),
                                  db4, s3.sched, pat2, ran)
                 : s3 \in {ScheduleNext(args, state2, db, sch)}})
             : state2 \in {IF ShouldRun(state)
                           THEN [updateState(state, r.result, t) EXCEPT !.error = NoError]
                           ELSE state}})
        ELSE The({
                 LET db4 == [db EXCEPT ![args.name] = stateE]
                 IN  IF args.dryRun
                     THEN Outcome("dryRun", NoError,
                                  [getMigrationState(args.name, stateE, sch) EXCEPT
                                      !.batchSize = args.batchSize,
                                      !.next = NextNames(args.next)],
                                  db4, sch, pat, ran)
                     ELSE Outcome("return", NoError,
                                  getMigrationState(args.name, stateE, sch),
                                  db4, sch, pat, ran)
             : stateE \in {Caught(args, state, r, t)}})

\* Step 1 after the row is read or created: the duplicate-start no-op, or
\* the cursor reset and the call of the migration function.
StartOrResume(args, migs, sch, pat, t, failFrom, tight, state0) ==
    IF AlreadyRunning(state0, args, sch)
    THEN Outcome("return", NoError, getMigrationState(args.name, state0, sch),
                 [migs EXCEPT ![args.name] = state0], sch, pat, Undefined)
    ELSE The({The({RunAndSchedule(args, migs, sch, pat, t, state1, r)
                 : r \in {RunMutation(args.fnHandle,
                                      [cursor |-> state1.cursor,
                                       batchSize |-> args.batchSize,
                                       dryRun |-> args.dryRun],
                                      pat, failFrom, tight)}})
             : state1 \in {IF NeedsReset(state0, args)
                           THEN ResetCursor(state0, args.cursor, t) ELSE state0}})

migrate(args, migs, sch, pat, t, failFrom, tight) ==
    IF ValidationError(args) # NoError
    THEN Outcome("error", ValidationError(args), NoStatus, migs, sch, pat, Undefined)
    ELSE The({StartOrResume(args, migs, sch, pat, t, failFrom, tight, state0)
             : state0 \in {IF migs[args.name].exists
                           THEN migs[args.name] ELSE NewRow(args, t)}})

\* The fields of runMigrationArgs, the argument validator of migrate.
runMigrationArgs ==
    {"name", "fnHandle", "cursor", "batchSize", "oneBatchOnly", "next", "dryRun"}

ArgsValidationMsg == "ArgumentValidationError"

\* migrate called with the arguments `args` and, besides them, the fields
\* `extra`.  The handler reads only the fields of `args`.  `strict` is the
\* platform's choice for an object with a field its validator does not
\* name: reject the call before the handler runs, or drop the field.
migrateWith(extra, strict, args, migs, sch, pat, t, failFrom, tight) ==
    IF strict /\ ~(extra \subseteq runMigrationArgs)
    THEN Outcome("error", ArgsValidationMsg, NoStatus, migs, sch, pat, Undefined)
    ELSE migrate(args, migs, sch, pat, t, failFrom, tight)

\* -------------------------------------------------------- lib.ts: cancel

\* A variant of cancelMigration that cancels whatever the status is.
cancelMigrationAlways(name, migration, sch) ==
    [status |-> [getMigrationState(name, migration, sch) EXCEPT !.state = "canceled"],
     sched |-> SchedulerCancel(sch, migration.workerId)]

cancelMigration(name, migration, sch) ==
    LET state == getMigrationState(name, migration, sch)
    IN  IF state.isDone THEN [status |-> state, sched |-> sch]
        ELSE IF state.state = "inProgress"
        THEN [status |-> [state EXCEPT !.state = "canceled"],
              sched |-> IF migration.workerId = NoWorker
                        THEN SchedulerCancel(sch, migration.workerId) ELSE sch]
        ELSE [status |-> state, sched |-> sch]

cancel(name, migs, sch, pat) ==
    IF ~migs[name].exists
    THEN Outcome("error", CancelNotFoundMsg, NoStatus, migs, sch, pat, Undefined)
    ELSE LET c == cancelMigration(name, migs[name], sch)
         IN Outcome("return", NoError, c.status, migs, c.sched, pat, Undefined)


\* ----------------------------------------------------- lib.ts: getStatus

\* args.limit ?? 10
DefaultLimit == 10

\* Array.prototype.reverse
Reverse(s) == [i \in 1..Len(s) |-> s[Len(s) + 1 - i]]

\* .order("desc").take(limit): the names of the newest rows, newest first.
\* Rows with the same creation time are ordered by the store.
RECURSIVE NewestFirst(_, _, _)
NewestFirst(S, migs, limit) ==
    IF S = {} \/ limit = 0 THEN <<>>
    ELSE LET n == CHOOSE x \in S :
                    \A y \in S : migs[x].creationTime >= migs[y].creationTime
         IN <<n>> \o NewestFirst(S \ {n}, migs, limit - 1)

\* getStatus({names, limit}): the rows of the names (a row made up for a
\* name without one, which is what a missing row of `migs` holds), or the
\* newest rows; then docs.reverse().map(getMigrationState).  `hasNames`
\* tells whether args.names is set; an empty list is set.
getStatus(hasNames, names, limit, migs, sch) ==
    LET docs == IF hasNames THEN names
                ELSE NewestFirst({n \in DOMAIN migs : migs[n].exists}, migs,
                                 IF limit = Undefined THEN DefaultLimit ELSE limit)
        turned == Reverse(docs)
    IN  [i \in 1..Len(turned) |-> getMigrationState(turned[i], migs[turned[i]], sch)]

\* ----------------------------------------------------- lib.ts: cancelAll

\* .take(100)
CancelAllPage == 100

\* cancelMigration of every migration of the set S.  Each one changes at
\* most the scheduled function of its own workerId, and only to canceled, so
\* the order in which they run does not show.
CancelEach(S, migs, sch) ==
    [id \in 1..Len(sch) |->
        IF \E n \in S : cancelMigration(n, migs[n], sch).sched[id] # sch[id]
        THEN [sch[id] EXCEPT !.kind = "canceled"]
        ELSE sch[id]]

\* The rows the query of cancelAll returns: not done, created at or after
\* sinceTs when it is given, the first CancelAllPage by creation time.
CancelAllResults(sinceTs, migs) ==
    The({IF Cardinality(all) <= CancelAllPage THEN all
         ELSE The({IF Cardinality(first) = CancelAllPage THEN first
                   ELSE CHOOSE S \in SUBSET all :
                           /\ Cardinality(S) = CancelAllPage
                           /\ \A x \in S, y \in all \ S :
                                  migs[x].creationTime <= migs[y].creationTime
                   : first \in {{n \in all :
                                   Cardinality({m \in all : migs[m].creationTime
                                                              < migs[n].creationTime})
                                       < CancelAllPage}}})
         : all \in {{n \in DOMAIN migs :
                        /\ migs[n].exists /\ ~migs[n].isDone
                        /\ sinceTs = Undefined \/ migs[n].creationTime >= sinceTs}}})

\* A variant of cancelAll that never schedules a further page.
cancelAllOnePage(sinceTs, migs, sch, pat) ==
    The({Outcome("return", NoError,
                 {cancelMigration(n, migs[n], sch).status : n \in results},
                 migs, CancelEach(results, migs, sch), pat, Undefined)
         : results \in {CancelAllResults(sinceTs, migs)}})

\* The scheduler table after the runAfter of cancelAll, when the page is full.
CancelAllNext(results, migs, sch) ==
    IF Cardinality(results) = CancelAllPage
    THEN The({RunAfter(sch, "cancelAll", [sinceTs |-> migs[latest].creationTime])
              : latest \in {n \in results :
                               \A m \in results :
                                   migs[m].creationTime <= migs[n].creationTime}})
    ELSE sch

cancelAll(sinceTs, migs, sch, pat) ==
    The({The({Outcome("return", NoError,
                      {cancelMigration(n, migs[n], sch1).status : n \in results},
                      migs, CancelEach(results, migs, sch1), pat, Undefined)
              : sch1 \in {CancelAllNext(results, migs, sch)}})
         : results \in {CancelAllResults(sinceTs, migs)}})


\* ------------------------------------------------------ lib.ts: clearAll

\* .take(100)
ClearAllPage == 100

\* The rows the query of clearAll returns: created at or before the cutoff,
\* the newest ClearAllPage of them.
ClearAllResults(cutoff, migs) ==
    LET all == {n \in DOMAIN migs : migs[n].exists /\ migs[n].creationTime <= cutoff}
    IN  IF Cardinality(all) <= ClearAllPage THEN all
        ELSE CHOOSE S \in SUBSET all :
                /\ Cardinality(S) = ClearAllPage
                /\ \A a \in S, b \in all \ S :
                       migs[a].creationTime >= migs[b].creationTime

\* clearAll({before}) at time t: `before ?? Date.now()` is the cutoff.
clearAll(before, migs, sch, pat, t) ==
    LET results == ClearAllResults(IF before = Undefined THEN t ELSE before, migs)
        oldest == CHOOSE n \in results :
                      \A m \in results : migs[n].creationTime <= migs[m].creationTime
    IN  Outcome("return", NoError, NoStatus,
                [n \in DOMAIN migs |-> IF n \in results THEN NoRow ELSE migs[n]],
                IF Cardinality(results) = ClearAllPage
                THEN RunAfter(sch, "clearAll", [before |-> migs[oldest].creationTime])
                ELSE sch,
                pat, Undefined)

\* ------------------------------------------------------------ the inputs

Args(n, h, c, b, o, nx, d) ==
    [name |-> n, fnHandle |-> h, cursor |-> c, batchSize |-> b,
     oneBatchOnly |-> o, next |-> nx, dryRun |-> d]

\* The series a caller may pass to a migration: none, or the other one.
NextChoices(n) ==
    {<<>>} \cup {<<[name |-> m, fnHandle |-> Handle(m)]>> : m \in Names \ {n}}

CursorStrings == 1..NumDocs
CursorArgs == {Undefined, Null, BadCursor} \cup CursorStrings

\* runOne(ctx, fnRef, {cursor, batchSize, dryRun}) and the runner.
RunOneArgs ==
    {Args(n, Handle(n), c, Undefined, FALSE, <<>>, d) :
        n \in Names, c \in CursorArgs, d \in BOOLEAN}
    \cup {Args(n, Handle(n), c, NumDocs, FALSE, <<>>, d) :
        n \in Names, c \in {Undefined, Null}, d \in BOOLEAN}

\* runSerially(ctx, [fnRef, other]) and the runner of a series.
RunSeriallyArgs ==
    UNION {{Args(n, Handle(n), Undefined, Undefined, FALSE, nx, d) :
                nx \in NextChoices(n) \ {<<>>}, d \in BOOLEAN} : n \in Names}

\* One iteration of runToCompletion(ctx, component, fnRef, {cursor}).
RunToCompletionArgs ==
    {Args(n, Handle(n), c, Undefined, TRUE, <<>>, FALSE) :
        n \in Names, c \in {Undefined} \cup CursorStrings}

\* Calls that input validation or function lookup rejects.
BadArgs ==
    {Args("A", hb[1], Undefined, hb[2], FALSE, <<>>, d) :
        hb \in {<<InvalidHandle, Undefined>>, <<MissingHandle, Undefined>>,
                <<Handle("A"), 0>>},
        d \in BOOLEAN}

ExtArgs == RunOneArgs \cup RunSeriallyArgs \cup RunToCompletionArgs \cup BadArgs

NoArgs(n) == Args(n, Handle(n), Undefined, Undefined, FALSE, <<>>, FALSE)

\* What the environment decides in one call of a migration function:
\* <<failFrom, tight>>.  migrateOne raises for the documents at positions
\* >= failFrom (NumDocs + 1: for none).
Envs == {<<1, TRUE>>, <<NumDocs + 1, TRUE>>, <<NumDocs + 1, FALSE>>}

\* ------------------------------------------------------------ the actions

\* The status of a migration as getStatus reports it, "none" without a row.
StatusOf(n, migs, sch) ==
    IF migs[n].exists THEN getMigrationState(n, migs[n], sch).state ELSE "none"

\* The last transaction: the function run, its arguments' name, cursor and
\* dryRun, the status of the migration before it, how it ended ("return",
\* "dryRun": the DRY RUN ConvexError, "error": any other error) and the
\* cursor its page was read from.
Last(op, args, o) ==
    [op |-> op, name |-> args.name, cursor |-> args.cursor, dryRun |-> args.dryRun,
     before |-> StatusOf(args.name, migrations, sched),
     kind |-> o.kind, ran |-> o.ran]

\* A mutation that returns commits its writes; one that throws commits none.
Commit(o, migs, sch, pat) ==
    IF o.kind = "return"
    THEN [migrations |-> o.migrations, sched |-> o.sched, patched |-> o.patched]
    ELSE [migrations |-> migs, sched |-> sch, patched |-> pat]

Init ==
    /\ migrations = [n \in Names |-> NoRow]
    /\ sched = <<>>
    /\ patched = [n \in Names |-> {}]
    /\ now = 1
    /\ calls = 0
    /\ last = [op |-> "init", name |-> "", cursor |-> Undefined, dryRun |-> FALSE,
               before |-> "none", kind |-> "return", ran |-> Undefined]
    /\ rtc = NoLoop
    /\ pg = NoPage

\* A caller runs lib.migrate.
Migrate(args, envs, maxTasks) ==
    /\ calls < MaxCalls
    /\ calls' = calls + 1
    /\ \E t \in now..MaxTime, e \in envs :
        \E o \in {migrate(args, migrations, sched, patched, t, e[1], e[2])} :
        \E c \in {Commit(o, migrations, sched, patched)} :
            /\ Len(c.sched) <= maxTasks
            /\ now' = t
            /\ migrations' = c.migrations
            /\ sched' = c.sched
            /\ patched' = c.patched
            /\ last' = Last("migrate", args, o)
    /\ UNCHANGED <<rtc, pg>>

\* The scheduler picks up a pending function.
StartTask(id) ==
    /\ sched[id].kind = "pending"
    /\ sched' = [sched EXCEPT ![id].kind = "inProgress"]
    /\ last' = [op |-> "start", name |-> sched[id].args.name, cursor |-> Undefined,
                dryRun |-> FALSE,
                before |-> StatusOf(sched[id].args.name, migrations, sched),
                kind |-> "return", ran |-> Undefined]
    /\ UNCHANGED <<migrations, patched, now, calls, rtc, pg>>

\* A scheduled lib.migrate runs: it ends "success" when the mutation
\* returns and "failed" when it throws.
RunTask(id, envs, maxTasks) ==
    /\ sched[id].kind = "inProgress"
    /\ sched[id].fn = "migrate"
    /\ \E t \in now..MaxTime, e \in envs :
        \E o \in {migrate(sched[id].args, migrations, sched, patched, t, e[1], e[2])} :
        \E c \in {Commit(o, migrations, sched, patched)} :
            /\ Len(c.sched) <= maxTasks
            /\ now' = t
            /\ migrations' = c.migrations
            /\ sched' = [c.sched EXCEPT
                            ![id].kind = IF o.kind = "return" THEN "success" ELSE "failed"]
            /\ patched' = c.patched
            /\ last' = Last("worker", sched[id].args, o)
    /\ UNCHANGED <<calls, rtc, pg>>

\* A caller runs lib.cancel.
Cancel(name) ==
    LET o == cancel(name, migrations, sched, patched)
        c == Commit(o, migrations, sched, patched)
    IN  /\ migrations' = c.migrations
        /\ sched' = c.sched
        /\ patched' = c.patched
        /\ last' = Last("cancel", NoArgs(name), o)
        /\ UNCHANGED <<now, calls, rtc, pg>>

\* A caller runs lib.cancelAll.
CancelAll ==
    LET o == cancelAll(Undefined, migrations, sched, patched)
        c == Commit(o, migrations, sched, patched)
    IN  /\ migrations' = c.migrations
        /\ sched' = c.sched
        /\ patched' = c.patched
        /\ last' = [op |-> "cancelAll", name |-> "", cursor |-> Undefined,
                    dryRun |-> FALSE, before |-> "none", kind |-> o.kind,
                    ran |-> Undefined]
        /\ UNCHANGED <<now, calls, rtc, pg>>

Next ==
    \/ \E args \in ExtArgs : Migrate(args, Envs, MaxTasks)
    \/ \E id \in 1..Len(sched) : StartTask(id)
    \/ \E id \in 1..Len(sched) : RunTask(id, Envs, MaxTasks)
    \/ \E name \in Names : Cancel(name)
    \/ CancelAll

Spec == Init /\ [][Next]_vars

\* -------------------------------- one start per migration, fair scheduler

\* The migration function never raises.
NeverRaises == {e \in Envs : e[1] > NumDocs}

\* Starting a migration, alone or as the head of a series.
StartArgs ==
    {a \in RunOneArgs \cup RunSeriallyArgs : a.cursor = Undefined /\ ~a.dryRun}

\* Enough scheduled functions for every page of every migration.
FairMaxTasks == 2 * NumDocs + 1

\* The one call that starts a migration that has never run.
StartOnce(args, envs, maxTasks) ==
    /\ ~migrations[args.name].exists
    /\ Migrate(args, envs, maxTasks)

NextFair ==
    \/ \E args \in StartArgs : StartOnce(args, NeverRaises, FairMaxTasks)
    \/ \E id \in 1..Len(sched) : StartTask(id)
    \/ \E id \in 1..Len(sched) : RunTask(id, NeverRaises, FairMaxTasks)

\* The scheduler runs every function scheduled with runAfter(0, ...).
SpecFair ==
    /\ Init
    /\ [][NextFair]_vars
    /\ WF_vars(\E id \in 1..Len(sched) : StartTask(id))
    /\ WF_vars(\E id \in 1..Len(sched) : RunTask(id, NeverRaises, FairMaxTasks))

\* ------------------ the migration function of failingMigration, batch 1

\* The migration function succeeds on the first document and raises on
\* every later one.
RaisesAfterFirst == {<<2, TRUE>>, <<2, FALSE>>}

\* Calls that start or restart the migration (cursor unset or null) and
\* leave the batch size to the migration's own (1).
FailingArgs ==
    {a \in RunOneArgs \cup RunSeriallyArgs :
        a.batchSize = Undefined /\ a.cursor \in {Undefined, Null}}

NextFailing ==
    \/ \E args \in FailingArgs : Migrate(args, RaisesAfterFirst, MaxTasks)
    \/ \E id \in 1..Len(sched) : StartTask(id)
    \/ \E id \in 1..Len(sched) : RunTask(id, RaisesAfterFirst, MaxTasks)
    \/ \E name \in Names : Cancel(name)

SpecFailing == Init /\ [][NextFailing]_vars

\* ------------------------------------- series over three migrations

SeriesNames == {"A", "B", "C"}

\* The migrations in the order the series lists them.
SeriesOrder == <<"A", "B", "C">>

\* The rest of a series after its head SeriesOrder[k]: up to two of the
\* later migrations, in order.
SeriesNext(n) ==
    LET k == CHOOSE i \in 1..Len(SeriesOrder) : SeriesOrder[i] = n
        later == {SeriesOrder[i] : i \in k + 1..Len(SeriesOrder)}
        ref(m) == [name |-> m, fnHandle |-> Handle(m)]
        before(x, y) == \E i, j \in 1..Len(SeriesOrder) :
                            i < j /\ SeriesOrder[i] = x /\ SeriesOrder[j] = y
    IN  {<<>>} \cup {<<ref(m)>> : m \in later}
        \cup {<<ref(m[1]), ref(m[2])>> : m \in {x \in later \X later : before(x[1], x[2])}}

\* runOne(ctx, fnRef) and runSerially(ctx, [fnRef, ...rest]), and the same
\* from the runner with a batch size.
SeriesCallArgs ==
    {Args(n[1], Handle(n[1]), Undefined, b, FALSE, n[2], FALSE) :
        n \in {x \in SeriesNames \X UNION {SeriesNext(m) : m \in SeriesNames} :
                  x[2] \in SeriesNext(x[1])},
        b \in {Undefined, NumDocs}}

InitSeries ==
    /\ migrations = [n \in SeriesNames |-> NoRow]
    /\ sched = <<>>
    /\ patched = [n \in SeriesNames |-> {}]
    /\ now = 1
    /\ calls = 0
    /\ last = [op |-> "init", name |-> "", cursor |-> Undefined, dryRun |-> FALSE,
               before |-> "none", kind |-> "return", ran |-> Undefined]
    /\ rtc = NoLoop
    /\ pg = NoPage

NextSeries ==
    \/ \E args \in SeriesCallArgs : Migrate(args, Envs, MaxTasks)
    \/ \E id \in 1..Len(sched) : StartTask(id)
    \/ \E id \in 1..Len(sched) : RunTask(id, Envs, MaxTasks)

SpecSeries == InitSeries /\ [][NextSeries]_vars

\* ------------------------------------------------ clearing the table

\* The cutoffs a caller may give: none, or a time.
Cutoffs == {Undefined} \cup 0..MaxTime

\* A caller runs lib.clearAll.
ClearAll(before) ==
    \E t \in now..MaxTime :
        LET o == clearAll(before, migrations, sched, patched, t)
            c == Commit(o, migrations, sched, patched)
        IN  /\ now' = t
            /\ migrations' = c.migrations
            /\ sched' = c.sched
            /\ patched' = c.patched
            /\ last' = [op |-> "clearAll", name |-> "", cursor |-> Undefined,
                        dryRun |-> FALSE, before |-> "none", kind |-> o.kind,
                        ran |-> Undefined]
            /\ UNCHANGED <<calls, rtc, pg>>

\* Callers that start migrations, the scheduler, and clearAll.
NextClear ==
    \/ \E args \in StartArgs : Migrate(args, Envs, MaxTasks)
    \/ \E id \in 1..Len(sched) : StartTask(id)
    \/ \E id \in 1..Len(sched) : RunTask(id, Envs, MaxTasks)
    \/ \E before \in Cutoffs : ClearAll(before)

SpecClear == Init /\ [][NextClear]_vars

\* ------------------------------------------- the pages of cancelAll

\* The largest number of rows of the table.
MaxJobs == 200

JobName(i) == "J" \o ToString(i)

\* A row left not done without a worker (one batch of a oneBatchOnly call),
\* or a finished one; created at time i.
JobRow(i, done) ==
    IF done
    THEN [NewRow(NoArgs(JobName(i)), i) EXCEPT
             !.isDone = TRUE, !.cursor = NumDocs, !.processed = NumDocs,
             !.latestEnd = i]
    ELSE [NewRow(NoArgs(JobName(i)), i) EXCEPT !.cursor = 1, !.processed = 1]

\* A table of n rows created at the times 1..n; every k-th one is done
\* (none when k = 0).
JobTable(n, k) ==
    [x \in {JobName(i) : i \in 1..n} |->
        LET i == CHOOSE j \in 1..n : JobName(j) = x
        IN  JobRow(i, k # 0 /\ i % k = 0)]

DoneEvery == {0, 3}

\* args.sinceTs of the caller: none, or a time.
SinceTimes == {Undefined, 2, CancelAllPage + 1}

InitJobs ==
    /\ migrations \in {JobTable(n, k) : n \in 0..MaxJobs, k \in DoneEvery}
    /\ sched = <<>>
    /\ patched = [x \in DOMAIN migrations |-> {}]
    /\ now = MaxJobs + 1
    /\ calls = 0
    /\ last = [op |-> "init", name |-> "", cursor |-> Undefined, dryRun |-> FALSE,
               before |-> "none", kind |-> "return", ran |-> Undefined,
               sinceTs |-> Undefined, visited |-> {}, page |-> 0]
    /\ rtc = NoLoop
    /\ pg = NoPage

\* A caller runs lib.cancelAll({sinceTs}), once; `visited` collects the
\* migrations cancelMigration has been applied to and `page` is the number
\* of them in the last invocation.
CancelAllSince(sinceTs) ==
    /\ calls = 0
    /\ calls' = 1
    /\ \E o \in {cancelAll(sinceTs, migrations, sched, patched)} :
       \E c \in {Commit(o, migrations, sched, patched)} :
            /\ migrations' = c.migrations
            /\ sched' = c.sched
            /\ patched' = c.patched
            /\ last' = [last EXCEPT !.op = "cancelAll", !.kind = o.kind,
                                    !.sinceTs = sinceTs,
                                    !.visited = {st.name : st \in o.status},
                                    !.page = Cardinality(o.status)]
    /\ UNCHANGED <<now, rtc, pg>>

\* The scheduler picks up a pending cancelAll.
StartCancelAll(id) ==
    /\ sched[id].kind = "pending"
    /\ sched[id].fn = "cancelAll"
    /\ sched' = [sched EXCEPT ![id].kind = "inProgress"]
    /\ UNCHANGED <<migrations, patched, now, calls, last, rtc, pg>>

\* A scheduled lib.cancelAll runs.
RunCancelAll(id) ==
    /\ sched[id].kind = "inProgress"
    /\ sched[id].fn = "cancelAll"
    /\ \E o \in {cancelAll(sched[id].args.sinceTs, migrations, sched, patched)} :
       \E c \in {Commit(o, migrations, sched, patched)} :
            /\ migrations' = c.migrations
            /\ sched' = [c.sched EXCEPT ![id].kind = "success"]
            /\ patched' = c.patched
            /\ last' = [last EXCEPT !.visited = @ \cup {st.name : st \in o.status},
                                    !.page = Cardinality(o.status)]
    /\ UNCHANGED <<now, calls, rtc, pg>>

NextCancelAll ==
    \/ \E sinceTs \in SinceTimes : CancelAllSince(sinceTs)
    \/ \E id \in 1..Len(sched) : StartCancelAll(id)
    \/ \E id \in 1..Len(sched) : RunCancelAll(id)

\* The scheduler runs every function it was given.
SpecCancelAll ==
    /\ InitJobs
    /\ [][NextCancelAll]_vars
    /\ WF_vars(\E id \in 1..Len(sched) : StartCancelAll(id))
    /\ WF_vars(\E id \in 1..Len(sched) : RunCancelAll(id))

\* ------------------------------------- index.ts: the handler of define

\* The cursor "".
EmptyString == -3

NextNeedsFnMsg == "You can only pass next if you also provide fn"
CursorNeededMsg == "Cursor must be specified for a one-off execution."

\* The arguments of a direct call of a defined migration (migrationArgs).
\* fn: whether it is given; dryRun: "unset", "true" or "false"; next:
\* Undefined or the length of the list.
OneOff(fn, c, b, d, nx) ==
    [fn |-> fn, cursor |-> c, batchSize |-> b, dryRun |-> d, next |-> nx]

\* A variant of the head of the handler that rejects a call without a
\* cursor unless dryRun is given as true.
ResolveArgsExplicitDryRun(a) ==
    LET settled(c, d) == [kind |-> "ok", msg |-> NoError, cursor |-> c, dryRun |-> d]
        thrown(m) == [kind |-> "error", msg |-> m, cursor |-> a.cursor, dryRun |-> FALSE]
    IN  IF a.fn
        THEN [kind |-> "interactive", msg |-> NoError, cursor |-> a.cursor,
              dryRun |-> a.dryRun = "true"]
        ELSE IF a.next # Undefined /\ a.next > 0 THEN thrown(NextNeedsFnMsg)
        ELSE IF a.cursor = Undefined \/ a.cursor = EmptyString
        THEN IF a.dryRun = "true" THEN settled(Null, TRUE)
             ELSE thrown(CursorNeededMsg)
        ELSE settled(a.cursor, a.dryRun = "true")

\* The head of the handler: the call is passed on to _runInteractive, or
\* rejected, or cursor and dryRun are settled.
ResolveArgs(a) ==
    LET settled(c, d) == [kind |-> "ok", msg |-> NoError, cursor |-> c, dryRun |-> d]
        thrown(m) == [kind |-> "error", msg |-> m, cursor |-> a.cursor, dryRun |-> FALSE]
    IN  IF a.fn
        THEN [kind |-> "interactive", msg |-> NoError, cursor |-> a.cursor,
              dryRun |-> a.dryRun = "true"]
        ELSE IF a.next # Undefined /\ a.next > 0 THEN thrown(NextNeedsFnMsg)
        ELSE IF a.cursor = Undefined \/ a.cursor = EmptyString
        THEN IF a.dryRun = "unset" THEN settled(Null, TRUE)
             ELSE IF a.dryRun = "true" THEN settled(Null, TRUE)
             ELSE thrown(CursorNeededMsg)
        ELSE settled(a.cursor, a.dryRun = "true")

\* args.batchSize || defaultBatchSize
NumItems(batchSize) ==
    IF batchSize = Undefined \/ batchSize = 0
    THEN functionDefaultBatchSize ELSE batchSize

\* What migrateOne does for a document: return nothing, return {}, return
\* a non-empty partial document, throw, or read the shared value, write it
\* back incremented and return nothing.
Plans == {"void", "empty", "update", "raise", "bump"}

\* The value migrateOne returns: whether it is an object, and its keys.
Returned(plan) ==
    [defined |-> plan \in {"empty", "update"},
     keys |-> IF plan = "update" THEN {"field"} ELSE {}]

\* A variant of the test of doOne that patches for every object returned.
ShouldPatchAnyObject(next) == next.defined

\* next && Object.keys(next).length > 0
ShouldPatch(next) == next.defined /\ Cardinality(next.keys) > 0

\* The first document of the page whose doOne has not completed.
FirstOpen(p) ==
    CHOOSE d \in DOMAIN p.at :
        p.at[d] # "done" /\ \A x \in DOMAIN p.at : p.at[x] # "done" => d <= x

\* A variant in which the documents are taken in any order in both modes.
MayStepAnyOrder(p, d) == p.at[d] # "done"

\* The doOne that may go on.  Promise.all(page.map(doOne)): every doOne has
\* been called and any of them that has not completed may resume.
\* for (const doc of page) await doOne(doc): the first that has not completed.
MayStep(p, d) ==
    IF p.parallelize THEN p.at[d] \notin {"new", "done"}
    ELSE p.at[d] # "done" /\ d = FirstOpen(p)

\* The transaction of the handler throws: its writes are rolled back.
Thrown(p, m) ==
    [p EXCEPT !.pc = "failed", !.msg = m, !.shared = 0, !.changed = {}]

\* The handler is called with the arguments `a`; the page is read and, with
\* parallelize, page.map(doOne) calls every doOne.
CallHandler(a, par, plan) ==
    /\ pg.pc = "idle"
    /\ \E r \in {ResolveArgs(a)} :
        pg' = IF r.kind = "interactive"
              THEN [NoPage EXCEPT !.pc = "interactive", !.args = a]
              ELSE IF r.kind = "error" THEN Thrown([NoPage EXCEPT !.args = a], r.msg)
              ELSE [NoPage EXCEPT
                       !.pc = "running", !.args = a, !.parallelize = par, !.dryRun = r.dryRun,
                       !.cursor = r.cursor, !.plan = plan,
                       !.at = [d \in Page(r.cursor, NumItems(a.batchSize)) |->
                                  IF par THEN "started" ELSE "new"],
                       !.local = [d \in Page(r.cursor, NumItems(a.batchSize)) |-> 0]]
    /\ UNCHANGED <<migrations, sched, patched, now, calls, last, rtc>>

\* doOne of document d goes on to its next await.
DoOne(d) ==
    /\ pg.pc = "running"
    /\ d \in DOMAIN pg.at
    /\ MayStep(pg, d)
    /\ pg' = IF pg.at[d] = "new" THEN [pg EXCEPT !.at[d] = "started"]
             ELSE IF pg.at[d] = "read"
             THEN [pg EXCEPT !.at[d] = "done", !.shared = pg.local[d] + 1]
             ELSE IF pg.plan[d] = "raise" THEN Thrown(pg, TransformMsg)
             ELSE IF pg.plan[d] = "bump"
             THEN [pg EXCEPT !.at[d] = "read", !.local[d] = pg.shared]
             ELSE [pg EXCEPT !.at[d] = "done",
                             !.changed = IF ShouldPatch(Returned(pg.plan[d]))
                                         THEN @ \cup {d} ELSE @]
    /\ UNCHANGED <<migrations, sched, patched, now, calls, last, rtc>>

\* Every doOne has completed: the handler returns the result, or throws it
\* in the DRY RUN error, which rolls its writes back.
ReturnResult ==
    /\ pg.pc = "running"
    /\ \A d \in DOMAIN pg.at : pg.at[d] = "done"
    /\ pg' = IF pg.dryRun
             THEN [pg EXCEPT !.pc = "dryRun", !.processed = Cardinality(DOMAIN pg.at),
                             !.shared = 0, !.changed = {}]
             ELSE [pg EXCEPT !.pc = "returned", !.processed = Cardinality(DOMAIN pg.at)]
    /\ UNCHANGED <<migrations, sched, patched, now, calls, last, rtc>>

\* The direct calls: with or without fn, cursor, dryRun, batchSize and next.
OneOffArgs ==
    {OneOff(FALSE, c, b, d, nx) :
        c \in {Undefined, EmptyString, Null} \cup CursorStrings,
        b \in {Undefined, 0, NumDocs},
        d \in {"unset", "true", "false"},
        nx \in {Undefined, 0, 1}}
    \cup {OneOff(TRUE, Undefined, Undefined, "unset", Undefined)}

NextDefine ==
    \/ \E a \in OneOffArgs, par \in BOOLEAN, plan \in [Docs -> Plans] :
            CallHandler(a, par, plan)
    \/ \E d \in Docs : DoOne(d)
    \/ ReturnResult

SpecDefine == Init /\ [][NextDefine]_vars

\* ------------------------------------------ index.ts: runToCompletion

DryRunMsg == "DRY RUN"
NoProgressMsg == "Invariant violation: Migration did not make progress."

\* A variant of the loop body that does not test status.error.
ContinueIgnoringError(loop, o) ==
    IF o.kind = "dryRun" THEN [loop EXCEPT !.pc = "threw", !.msg = DryRunMsg]
    ELSE IF o.kind # "return" THEN [loop EXCEPT !.pc = "threw", !.msg = o.msg]
    ELSE IF o.status.isDone
    THEN [loop EXCEPT !.pc = "returned", !.isDone = o.status.isDone,
                      !.processed = o.status.processed]
    ELSE IF o.status.cursor = Null \/ o.status.cursor = loop.cursor
    THEN [loop EXCEPT !.pc = "threw", !.msg = NoProgressMsg]
    ELSE [loop EXCEPT !.cursor = o.status.cursor]

\* A variant of the loop body that returns the first status without an
\* error, done or not.
ContinueReturnsFirst(loop, o) ==
    IF o.kind = "dryRun" THEN [loop EXCEPT !.pc = "threw", !.msg = DryRunMsg]
    ELSE IF o.kind # "return" THEN [loop EXCEPT !.pc = "threw", !.msg = o.msg]
    ELSE IF Truthy(o.status.error)
    THEN [loop EXCEPT !.pc = "threw", !.msg = o.status.error]
    ELSE [loop EXCEPT !.pc = "returned", !.isDone = o.status.isDone,
                      !.processed = o.status.processed]

\* One pass of the body of `while (true)` after lib.migrate ended with
\* outcome o: return, throw, or go round again with the returned cursor.
\* A mutation that throws rejects the await and so the whole call.
Continue(loop, o) ==
    IF o.kind = "dryRun" THEN [loop EXCEPT !.pc = "threw", !.msg = DryRunMsg]
    ELSE IF o.kind # "return" THEN [loop EXCEPT !.pc = "threw", !.msg = o.msg]
    ELSE IF o.status.isDone
    THEN [loop EXCEPT !.pc = "returned", !.isDone = o.status.isDone,
                      !.processed = o.status.processed]
    ELSE IF Truthy(o.status.error)
    THEN [loop EXCEPT !.pc = "threw", !.msg = o.status.error]
    ELSE IF o.status.cursor = Null \/ o.status.cursor = loop.cursor
    THEN [loop EXCEPT !.pc = "threw", !.msg = NoProgressMsg]
    ELSE [loop EXCEPT !.cursor = o.status.cursor]

\* The arguments runToCompletion passes to lib.migrate.
LoopArgs(loop) ==
    Args(loop.name, Handle(loop.name), loop.cursor, loop.batchSize, TRUE, <<>>,
         loop.dryRun)

\* The options a caller may give: the cursor to start from, unset, null or
\* a cursor of the table, a batch size, dryRun.
LoopCursors == {Undefined, Null} \cup CursorStrings
LoopBatchSizes == {Undefined, NumDocs}

\* A caller calls runToCompletion(ctx, component, fnRef, {cursor, batchSize,
\* dryRun}): the locals before the loop.  `busy` records whether the
\* migration was in progress at the call, `fromStart` whether the call asks
\* for the whole table: a null cursor, or no cursor for a migration without
\* a row.
RunToCompletion(n, c, b, d) ==
    /\ rtc.pc = "idle"
    /\ rtc' = [NoLoop EXCEPT !.pc = "loop", !.name = n, !.cursor = c,
                             !.batchSize = b, !.dryRun = d,
                             !.busy = StatusOf(n, migrations, sched) = "inProgress",
                             !.fromStart = \/ c = Null
                                           \/ c = Undefined /\ ~migrations[n].exists]
    /\ UNCHANGED <<migrations, sched, patched, now, calls, last, pg>>

\* One iteration of the loop: the mutation lib.migrate and the tests on
\* its status.  `failed` records the first iteration whose page raised.
RunToCompletionStep(envs) ==
    /\ rtc.pc = "loop"
    /\ \E t \in now..MaxTime, e \in envs :
        \E o \in {migrate(LoopArgs(rtc), migrations, sched, patched, t, e[1], e[2])} :
        \E c \in {Commit(o, migrations, sched, patched)} :
            /\ now' = t
            /\ migrations' = c.migrations
            /\ sched' = c.sched
            /\ patched' = c.patched
            /\ last' = Last("migrate", LoopArgs(rtc), o)
            /\ rtc' = [Continue(rtc, o) EXCEPT
                          !.iterations = @ + 1,
                          !.failed = IF /\ @ = 0
                                        /\ o.ran # Undefined
                                        /\ RunMutation(Handle(rtc.name),
                                                [cursor |-> o.ran,
                                                 batchSize |-> rtc.batchSize,
                                                 dryRun |-> rtc.dryRun],
                                                patched, e[1], e[2]).kind = "error"
                                     THEN rtc.iterations + 1 ELSE @]
    /\ UNCHANGED <<calls, pg>>

\* runToCompletion beside callers that start migrations and their workers.
NextLoop ==
    \/ \E args \in StartArgs : Migrate(args, Envs, MaxTasks)
    \/ \E id \in 1..Len(sched) : StartTask(id)
    \/ \E id \in 1..Len(sched) : RunTask(id, Envs, MaxTasks)
    \/ \E n \in Names, c \in LoopCursors, b \in LoopBatchSizes, d \in BOOLEAN :
            RunToCompletion(n, c, b, d)
    \/ RunToCompletionStep(Envs)

SpecLoop == Init /\ [][NextLoop]_vars

\* runToCompletion alone, with a migration function that never raises:
\* the only other invocations are iterations of earlier, abandoned calls of
\* runToCompletion, made before this one.
NextAlone ==
    \/ \E args \in RunToCompletionArgs :
            rtc.pc = "idle" /\ Migrate(args, NeverRaises, MaxTasks)
    \/ \E n \in Names, c \in LoopCursors, b \in LoopBatchSizes :
            RunToCompletion(n, c, b, FALSE)
    \/ RunToCompletionStep(NeverRaises)

\* The action that runs the loop keeps running.
SpecAlone ==
    /\ Init
    /\ [][NextAlone]_vars
    /\ WF_vars(RunToCompletionStep(NeverRaises))

\* ----------------------------- the status projection over all its inputs

\* The rows getMigrationState may be given: done or not, without an error,
\* with an empty or a non-empty error message, with or without a worker id.
StatusRows ==
    {[NoRow EXCEPT !.exists = TRUE, !.isDone = d, !.error = e, !.workerId = w,
                   !.latestStart = 1, !.creationTime = 1] :
        d \in BOOLEAN, e \in {NoError, EmptyMsg, TransformMsg}, w \in {NoWorker, 1}}

\* The scheduler tables: empty (system.get returns null), or the one
\* scheduled function in any of its states.
StatusScheds ==
    {<<>>} \cup
    {<<[fn |-> "migrate", kind |-> k, args |-> NoArgs("A")]>> :
        k \in {"pending", "inProgress", "success", "failed", "canceled"}}

InitStatus ==
    /\ migrations \in {[n \in Names |-> IF n = "A" THEN r ELSE NoRow] : r \in StatusRows}
    /\ sched \in StatusScheds
    /\ patched = [n \in Names |-> {}]
    /\ now = 1
    /\ calls = 0
    /\ last = [op |-> "init", name |-> "", cursor |-> Undefined, dryRun |-> FALSE,
               before |-> "none", kind |-> "return", ran |-> Undefined]
    /\ rtc = NoLoop
    /\ pg = NoPage

\* A caller runs lib.getStatus({names: [n]}); `before` is the state reported.
GetStatus(n) ==
    /\ last' = [op |-> "getStatus", name |-> n, cursor |-> Undefined,
                dryRun |-> FALSE,
                before |-> getMigrationState(n, migrations[n], sched).state,
                kind |-> "return", ran |-> Undefined]
    /\ UNCHANGED <<migrations, sched, patched, now, calls, rtc, pg>>

NextStatus == \E n \in Names : GetStatus(n)

SpecStatus == InitStatus /\ [][NextStatus]_vars

\* The lists of names a caller may ask for: up to two names, with or
\* without a row.
StatusNames ==
    {<<>>} \cup {<<n>> : n \in Names} \cup {<<n, m>> : n, m \in Names}

\* A caller runs lib.getStatus({names}); `names` and `result` are what it
\* asked for and what it got.
GetStatusOf(hasNames, names) ==
    /\ last' = [op |-> "getStatus", name |-> "", cursor |-> Undefined,
                dryRun |-> FALSE, before |-> "none", kind |-> "return",
                ran |-> Undefined, hasNames |-> hasNames, names |-> names,
                result |-> getStatus(hasNames, names, Undefined, migrations, sched)]
    /\ UNCHANGED <<migrations, sched, patched, now, calls, rtc, pg>>

NextStatusOf ==
    \/ \E names \in StatusNames : GetStatusOf(TRUE, names)
    \/ GetStatusOf(FALSE, <<>>)

SpecStatusOf == InitStatus /\ [][NextStatusOf]_vars


\* ------------------------------------------------------------ the claims

\* Every call of lib.migrate that can be made in the current state: by a
\* caller, or by the scheduler with the arguments of a scheduled function.
AllArgs == ExtArgs \cup {sched[id].args : id \in 1..Len(sched)}

\* The call passes the input validation of lib.migrate.
Valid(a) ==
    /\ a.batchSize = Undefined \/ a.batchSize > 0
    /\ a.fnHandle.scheme = "function://"

\* The committed state of the transaction of outcome o in the current state.
After(o) == Commit(o, migrations, sched, patched)
Here == [migrations |-> migrations, sched |-> sched, patched |-> patched]

\* The scheduled migrate functions of migration n that are pending or in
\* progress.
LiveTasks(n) ==
    {id \in 1..Len(sched) :
        /\ sched[id].fn = "migrate"
        /\ sched[id].args.name = n
        /\ sched[id].kind \in {"pending", "inProgress"}}

\* The worker recorded in the row of n is pending or in progress.
LiveWorker(n) ==
    SystemGet(sched, migrations[n].workerId).kind \in {"pending", "inProgress"}

\* C1: in every reachable state, each migration name has at most one
\* scheduled migrate function that is pending or in progress.
C1_AtMostOneLiveTask ==
    \A n \in Names : Cardinality(LiveTasks(n)) <= 1

\* The call with outcome o was a no-op that returned the current status.
IsNoOp(o, n) ==
    /\ o.kind = "return"
    /\ o.ran = Undefined
    /\ After(o) = Here
    /\ o.status = getMigrationState(n, migrations[n], sched)

\* The last transaction was a caller's non-dry migrate with an unset cursor
\* that ran a page.
FirstRanPage ==
    /\ last.op = "migrate"
    /\ ~last.dryRun
    /\ last.cursor = Undefined
    /\ last.ran # Undefined

\* Every non-dry migrate with an unset cursor for the name of the last
\* transaction is, in the current state, a no-op.
SecondIsNoOp ==
    \A a \in ExtArgs :
        (a.name = last.name /\ a.cursor = Undefined /\ ~a.dryRun /\ Valid(a)) =>
            \A t \in now..MaxTime, e \in Envs :
                IsNoOp(migrate(a, migrations, sched, patched, t, e[1], e[2]), a.name)

C4_ResumeFromPersistedCursor ==
    \A a \in ExtArgs :
        (migrations[a.name].error # NoError /\ a.cursor = Undefined /\ Valid(a)) =>
            \A t \in now..MaxTime, e \in Envs :
                LET o == migrate(a, migrations, sched, patched, t, e[1], e[2])
                    row == migrations[a.name]
                    page == RunMutation(a.fnHandle,
                                        [cursor |-> row.cursor, batchSize |-> a.batchSize,
                                         dryRun |-> a.dryRun],
                                        patched, e[1], e[2])
                IN  /\ o.ran = row.cursor
                    /\ o.kind \in {"return", "dryRun"}
                    /\ IF page.kind = "error"
                       THEN /\ o.status.processed = row.processed
                            /\ o.status.cursor = row.cursor
                       ELSE /\ o.status.processed = row.processed + page.result.processed
                            /\ o.status.cursor = page.result.continueCursor

\* C4 witness: a caller's migrate with an unset cursor resumed a failed
\* migration from a cursor past the start and processed the rest.
C4_Witness ==
    /\ last.op = "migrate" /\ last.cursor = Undefined /\ last.kind = "return"
    /\ last.before = "failed" /\ last.ran \in CursorStrings
    /\ migrations[last.name].error = NoError
    /\ migrations[last.name].processed = NumDocs

\* C5: a migrate with dryRun commits nothing: the migrations table, the
\* scheduled functions and the documents are as before.
C5_DryRunChangesNothing ==
    \A a \in AllArgs :
        a.dryRun =>
            \A t \in now..MaxTime, e \in Envs :
                After(migrate(a, migrations, sched, patched, t, e[1], e[2])) = Here

\* C5 witness: a dry run ended with the DRY RUN signal on a migration that
\* was partially processed.
C5_Witness ==
    /\ last.op = "migrate" /\ last.dryRun /\ last.kind = "dryRun"
    /\ last.before # "none"
    /\ migrations[last.name].processed > 0
    /\ ~migrations[last.name].isDone

\* C6: a migrate with dryRun that passes validation and is not a
\* duplicate-start no-op ends with the DRY RUN signal.
C6_DryRunEndsWithSignal ==
    \A a \in ExtArgs :
        (a.dryRun /\ Valid(a) /\ ~AlreadyRunning(migrations[a.name], a, sched)) =>
            \A t \in now..MaxTime, e \in Envs :
                migrate(a, migrations, sched, patched, t, e[1], e[2]).kind = "dryRun"

C8_EventuallySuccess ==
    \A n \in Names :
        migrations[n].exists ~>
            /\ migrations[n].isDone
            /\ migrations[n].processed = NumDocs
            /\ patched[n] = Docs
            /\ StatusOf(n, migrations, sched) = "success"

\* C8 witness: a worker finished a migration after more than one page, all
\* documents migrated.
C8_Witness ==
    /\ last.op = "worker" /\ last.ran \in CursorStrings
    /\ migrations[last.name].isDone
    /\ migrations[last.name].processed = NumDocs
    /\ patched[last.name] = Docs
    /\ StatusOf(last.name, migrations, sched) = "success"

\* The last transaction was the first call for a migration, non-dry, with
\* an unset cursor.
FirstInvocation ==
    /\ last.op = "migrate" /\ last.before = "none" /\ last.kind = "return"
    /\ last.cursor = Undefined /\ ~last.dryRun

C10_CancelRevokesWorker ==
    \A n \in Names :
        (migrations[n].exists /\ StatusOf(n, migrations, sched) = "inProgress") =>
            LET o == cancel(n, migrations, sched, patched)
            IN  /\ o.kind = "return"
                /\ o.status.state = "canceled"
                /\ SystemGet(After(o).sched, migrations[n].workerId).kind = "canceled"

\* C11: after cancel of a migration that is in progress, getStatus reports
\* "canceled" and no scheduled function of the migration is pending or in
\* progress, so no page is processed until it is called again.
C11_CanceledAfterCancel ==
    (last.op = "cancel" /\ last.before = "inProgress" /\ last.kind = "return") =>
        /\ StatusOf(last.name, migrations, sched) = "canceled"
        /\ LiveTasks(last.name) = {}

C13_StatusPrecedence ==
    \A n \in Names :
        LET m == migrations[n]
            w == SystemGet(sched, m.workerId).kind
            st == getMigrationState(n, m, sched).state
            hasError == m.error # NoError
        IN  /\ m.isDone => st = "success"
            /\ (~m.isDone /\ (hasError \/ w = "failed")) => st = "failed"
            /\ (~m.isDone /\ ~hasError /\ w = "canceled") => st = "canceled"
            /\ (~m.isDone /\ ~hasError /\ w \in {"pending", "inProgress"}) =>
                   st = "inProgress"
            /\ (~m.isDone /\ ~hasError /\ w \in {"none", "success"}) => st = "unknown"

\* C14: a migrate with a batch size <= 0 or a handle that does not start
\* with "function://" throws before any write: no row is created or
\* changed, the migration function is not called, nothing is scheduled.
C14_ValidationBeforeState ==
    \A a \in AllArgs :
        ~Valid(a) =>
            \A t \in now..MaxTime, e \in Envs :
                LET o == migrate(a, migrations, sched, patched, t, e[1], e[2])
                IN  /\ o.kind = "error"
                    /\ o.msg \in {BatchSizeMsg, InvalidFnHandleMsg}
                    /\ o.ran = Undefined
                    /\ o.migrations = migrations
                    /\ o.sched = sched
                    /\ o.patched = patched
                    /\ After(o) = Here

\* C14 witness: a non-dry migrate for a migration without a row threw, and
\* the migration still has no row.
C14_Witness ==
    /\ last.op = "migrate" /\ last.kind = "error" /\ ~last.dryRun
    /\ last.before = "none" /\ last.ran = Undefined
    /\ ~migrations[last.name].exists

\* C15: a migrate for a migration without a row whose handle resolves to no
\* function throws and creates no row.
C15_UnresolvableCreatesNoRow ==
    \A a \in ExtArgs :
        (a.fnHandle = MissingHandle /\ ~migrations[a.name].exists) =>
            \A t \in now..MaxTime, e \in Envs :
                LET o == migrate(a, migrations, sched, patched, t, e[1], e[2])
                IN  /\ o.kind # "return"
                    /\ ~After(o).migrations[a.name].exists

\* C16: a valid non-dry migrate with a null cursor starts over whatever the
\* row holds: its page is read from the start of the table and the
\* committed processed counts that page only; with an unset cursor a page,
\* when one is read, is read from the persisted cursor (from the start for
\* a new migration).
C16_NullCursorStartsOver ==
    \A a \in ExtArgs :
        (~a.dryRun /\ Valid(a) /\ a.fnHandle.path \in Names) =>
            \A t \in now..MaxTime, e \in Envs :
                LET o == migrate(a, migrations, sched, patched, t, e[1], e[2])
                    row == After(o).migrations[a.name]
                    first == RunMutation(a.fnHandle,
                                         [cursor |-> Null, batchSize |-> a.batchSize,
                                          dryRun |-> FALSE],
                                         patched, e[1], e[2])
                IN  /\ a.cursor = Null =>
                        /\ o.ran = Null
                        /\ row.processed =
                               IF first.kind = "ok" THEN first.result.processed ELSE 0
                    /\ (a.cursor = Undefined /\ o.ran # Undefined) =>
                        o.ran = IF migrations[a.name].exists
                                THEN migrations[a.name].cursor ELSE Null

\* C17: in every reachable state a row that is done has no worker id and
\* has latestEnd set.
C17_DoneHasNoWorker ==
    \A n \in Names :
        (migrations[n].exists /\ migrations[n].isDone) =>
            /\ migrations[n].workerId = NoWorker
            /\ migrations[n].latestEnd # Undefined

\* C17 witness: a scheduled migrate finished a migration whose row had
\* held its worker id.
C17_Witness ==
    /\ last.op = "worker" /\ last.before = "inProgress" /\ last.ran # Undefined
    /\ migrations[last.name].isDone
    /\ migrations[last.name].workerId = NoWorker
    /\ migrations[last.name].latestEnd # Undefined

\* The persisted row of migration n, or the row migrate would create.
RowOf(a) ==
    IF migrations[a.name].exists THEN migrations[a.name] ELSE NewRow(a, now)

\* The invocation carries an explicit cursor different from the persisted one.
ExplicitOtherCursor(a) ==
    a.cursor # Undefined /\ a.cursor # RowOf(a).cursor

\* The result of the page the invocation reads when it reads one from `start`.
PageOf(a, start, e) ==
    RunMutation(a.fnHandle,
                [cursor |-> start, batchSize |-> a.batchSize, dryRun |-> a.dryRun],
                patched, e[1], e[2])

\* C18 as stated: processed increases only in a migrate invocation whose
\* page succeeded and committed, and then by exactly the page's length; an
\* invocation whose page errors and a dry run never increase it; it
\* decreases, to 0, only in an invocation with an explicit cursor different
\* from the persisted one.
C18_ProcessedAsStated ==
    \A a \in AllArgs : \A t \in now..MaxTime, e \in Envs :
        LET o == migrate(a, migrations, sched, patched, t, e[1], e[2])
            before == migrations[a.name].processed
            after == After(o).migrations[a.name].processed
            page == PageOf(a, o.ran, e)
        IN  /\ after > before =>
                /\ o.kind = "return" /\ o.ran # Undefined /\ page.kind = "ok"
                /\ after - before = page.result.processed
            /\ (a.dryRun \/ (o.ran # Undefined /\ page.kind = "error")) => after <= before
            /\ after < before => (after = 0 /\ ExplicitOtherCursor(a))

\* C18, amended: a migrate invocation that commits leaves processed at its
\* base (0 when the invocation carries an explicit cursor different from the
\* persisted one and no worker of the migration is live, the previous value
\* otherwise) plus the length of its page when the page succeeded, plus
\* nothing when no page ran or the page raised; an invocation that throws
\* (a dry run, a rejected call), another migration's invocation, cancel and
\* cancelAll leave it unchanged.
C18_ProcessedStep ==
    /\ \A a \in AllArgs : \A t \in now..MaxTime, e \in Envs :
        LET o == migrate(a, migrations, sched, patched, t, e[1], e[2])
            before == migrations[a.name].processed
            after == After(o).migrations
            live == SystemGet(sched, RowOf(a).workerId).kind \in {"pending", "inProgress"}
            base == IF ExplicitOtherCursor(a) /\ ~live THEN 0 ELSE before
            page == PageOf(a, o.ran, e)
            grown == IF o.ran # Undefined /\ page.kind = "ok"
                     THEN page.result.processed ELSE 0
        IN  /\ after[a.name].processed = IF o.kind = "return" THEN base + grown ELSE before
            /\ \A n \in Names \ {a.name} : after[n].processed = migrations[n].processed
    /\ \A n \in Names :
            After(cancel(n, migrations, sched, patched)).migrations = migrations
    /\ After(cancelAll(Undefined, migrations, sched, patched)).migrations = migrations

\* C18 witness: a migration that was done with NumDocs documents processed
\* was restarted with a null cursor; the reset and a page of one document
\* committed together, and processed is 1.
C18_Witness ==
    /\ last.op = "migrate" /\ last.before = "success" /\ last.cursor = Null
    /\ last.kind = "return" /\ last.ran = Null
    /\ migrations[last.name].processed = 1
    /\ NumDocs > 1

\* Every call of lib.migrate that can be made in the current state of a
\* series: by a caller, or by the scheduler for a function that is pending or
\* in progress.
SeriesAllArgs ==
    SeriesCallArgs \cup
    {sched[id].args : id \in {k \in 1..Len(sched) :
                                sched[k].kind \in {"pending", "inProgress"}}}

\* Migration n has a row that is done.
DoneIn(migs, n) == migs[n].exists /\ migs[n].isDone

\* C19: an invocation of migration K schedules a migrate for another
\* migration only when it ends with K done, and then for a migration of its
\* series all of whose predecessors in the series are done; an invocation
\* that leaves K not done processes no document of another migration.
C19_NextOnlyAfterDone ==
    \A a \in SeriesAllArgs : \A t \in now..MaxTime, e \in Envs :
        LET o == migrate(a, migrations, sched, patched, t, e[1], e[2])
            post == After(o)
        IN  /\ \A id \in Len(sched) + 1..Len(post.sched) :
                    post.sched[id].args.name # a.name =>
                        /\ DoneIn(post.migrations, a.name)
                        /\ \E i \in 1..Len(a.next) :
                            /\ post.sched[id].args.name = a.next[i].name
                            /\ \A j \in 1..i - 1 :
                                    DoneIn(post.migrations, a.next[j].name)
            /\ ~DoneIn(post.migrations, a.name) =>
                    \A n \in SeriesNames \ {a.name} : post.patched[n] = patched[n]

\* C19 witness: after the one call that started the series at A, the worker
\* of A read the page that finished A, and the migrate of B is pending
\* while B has no row yet.
C19_Witness ==
    /\ calls = 1 /\ last.op = "worker" /\ last.name = "A" /\ last.ran # Undefined
    /\ DoneIn(migrations, "A") /\ ~migrations["B"].exists
    /\ Len(sched) = 2 /\ sched[2].kind = "pending" /\ sched[2].args.name = "B"

\* C20: an invocation changes no row and no table of another migration; an
\* invocation of a migration that is already done reads no page and changes
\* nothing of it; and an invocation that ends with its migration done
\* schedules exactly one migrate, for the first migration of its series that
\* is not done, with the migrations after that one as its series, or nothing
\* when all of them are done.
C20_DoneJobsSkipped ==
    \A a \in SeriesAllArgs : \A t \in now..MaxTime, e \in Envs :
        LET o == migrate(a, migrations, sched, patched, t, e[1], e[2])
            post == After(o)
            open == {i \in 1..Len(a.next) : ~DoneIn(migrations, a.next[i].name)}
            i == CHOOSE i \in open : \A j \in open : i <= j
            started == [fn |-> "migrate", kind |-> "pending",
                        args |-> Args(a.next[i].name, a.next[i].fnHandle, Undefined,
                                      a.batchSize, FALSE,
                                      SubSeq(a.next, i + 1, Len(a.next)), a.dryRun)]
        IN  /\ \A n \in SeriesNames \ {a.name} :
                    post.migrations[n] = migrations[n] /\ post.patched[n] = patched[n]
            /\ DoneIn(migrations, a.name) =>
                    /\ o.kind = "return" /\ o.ran = Undefined
                    /\ post.migrations = migrations /\ post.patched = patched
            /\ (o.kind = "return" /\ DoneIn(post.migrations, a.name)) =>
                    post.sched = IF open = {} THEN sched ELSE Append(sched, started)

\* C20 witness: A was done; the series [A, B, C] was started; A was skipped
\* without reading a page and the migrate of B is pending with C as its
\* series, while B and C have no row yet.
C20_Witness ==
    /\ last.op = "migrate" /\ last.name = "A" /\ last.before = "success"
    /\ last.kind = "return" /\ last.ran = Undefined
    /\ ~migrations["B"].exists /\ ~migrations["C"].exists
    /\ Len(sched) >= 1
    /\ sched[Len(sched)].kind = "pending"
    /\ sched[Len(sched)].args.name = "B"
    /\ NextNames(sched[Len(sched)].args.next) = <<"C">>

\* C21: an invocation of a series (cursor unset: the caller's runSerially
\* or the migrate a finished predecessor scheduled) for a migration whose
\* row holds a pending or in-progress worker returns the current status
\* without reading a page, changing a row or scheduling anything, so
\* nothing is left that could start the later migrations of the series.
C21_SeriesStopsAtRunning ==
    \A a \in SeriesAllArgs : \A t \in now..MaxTime, e \in Envs :
        (/\ a.cursor = Undefined
         /\ migrations[a.name].exists
         /\ SystemGet(sched, migrations[a.name].workerId).kind \in {"pending", "inProgress"}) =>
            IsNoOp(migrate(a, migrations, sched, patched, t, e[1], e[2]), a.name)

\* C21 witness: the series [A, B, C] finished A and scheduled B with C
\* after it; B was started on its own meanwhile; the scheduled migrate of B
\* ran while B was in progress, read no page, and C has no row and no
\* scheduled function.
C21_Witness ==
    /\ last.op = "worker" /\ last.name = "B" /\ last.before = "inProgress"
    /\ last.cursor = Undefined /\ last.kind = "return" /\ last.ran = Undefined
    /\ \E id \in 1..Len(sched) :
            /\ sched[id].kind = "success" /\ sched[id].args.name = "B"
            /\ sched[id].args.cursor = Undefined
            /\ NextNames(sched[id].args.next) = <<"C">>
    /\ ~migrations["C"].exists
    /\ \A id \in 1..Len(sched) : sched[id].args.name # "C"

\* Some run of the invocation a in the current state schedules a migrate
\* for another migration than its own.
SchedulesOther(a) ==
    \E t \in now..MaxTime, e \in Envs :
        LET post == After(migrate(a, migrations, sched, patched, t, e[1], e[2]))
        IN  \E id \in Len(sched) + 1..Len(post.sched) :
                post.sched[id].args.name # a.name

\* The last transaction was a cancel of a migration in progress.
JustCanceled ==
    last.op = "cancel" /\ last.kind = "return" /\ last.before = "inProgress"

\* C22: an invocation whose page raises schedules nothing, so the chain of
\* its series ends there; and once a migration in progress has been
\* canceled, no scheduled function of that migration is left that would
\* start a later migration of the series.
C22_ChainHalts ==
    /\ \A a \in AllArgs : \A t \in now..MaxTime, e \in Envs :
            LET o == migrate(a, migrations, sched, patched, t, e[1], e[2])
            IN  (o.ran # Undefined /\ PageOf(a, o.ran, e).kind = "error") =>
                    After(o).sched = sched
    /\ JustCanceled =>
            \A id \in LiveTasks(last.name) : ~SchedulesOther(sched[id].args)

\* C23: with series that share migrations, no document is processed twice:
\* the count of processed documents of every migration equals the number of
\* documents written; every page is read from the persisted cursor of a
\* migration that is not done; and an invocation of a series that finds the
\* migration done or with a live worker reads no page and changes no row
\* and no table, and schedules nothing when the worker is live.
C23_SharedJobNotDuplicated ==
    /\ \A n \in SeriesNames : migrations[n].processed = Cardinality(patched[n])
    /\ \A a \in SeriesAllArgs : \A t \in now..MaxTime, e \in Envs :
            LET o == migrate(a, migrations, sched, patched, t, e[1], e[2])
                post == After(o)
                live == SystemGet(sched, RowOf(a).workerId).kind \in {"pending", "inProgress"}
            IN  /\ o.ran # Undefined =>
                        o.ran = RowOf(a).cursor /\ ~DoneIn(migrations, a.name)
                /\ (a.cursor = Undefined /\ (DoneIn(migrations, a.name) \/ live)) =>
                        /\ o.ran = Undefined
                        /\ post.migrations = migrations /\ post.patched = patched
                        /\ live => post.sched = sched

\* C23 witness: the series [B, C] read the first page of B; a second series
\* finished A and scheduled B; that migrate of B ran while the worker of the
\* first series was live and read no page.
C23_Witness ==
    /\ calls = 2 /\ last.op = "worker" /\ last.name = "B"
    /\ last.before = "inProgress" /\ last.cursor = Undefined /\ last.ran = Undefined
    /\ DoneIn(migrations, "A") /\ migrations["B"].processed = 1
    /\ \E id \in 1..Len(sched) :
            /\ sched[id].kind \in {"pending", "inProgress"}
            /\ id = migrations["B"].workerId
            /\ NextNames(sched[id].args.next) = <<"C">>

\* C24 as stated: an invocation with oneBatchOnly schedules nothing and,
\* when it returns, the row has no worker id.
C24_OneBatchAsStated ==
    \A a \in AllArgs : \A t \in now..MaxTime, e \in Envs :
        LET o == migrate(a, migrations, sched, patched, t, e[1], e[2])
            post == After(o)
        IN  a.oneBatchOnly =>
                /\ post.sched = sched
                /\ o.kind = "return" => post.migrations[a.name].workerId = NoWorker

\* C24, amended: an invocation with oneBatchOnly schedules nothing and
\* changes no row but its own; when it returns, the row has no worker id,
\* unless the row held a live worker and the invocation was the no-op that
\* writes nothing.
C24_OneBatchSchedulesNothing ==
    \A a \in AllArgs : \A t \in now..MaxTime, e \in Envs :
        LET o == migrate(a, migrations, sched, patched, t, e[1], e[2])
            post == After(o)
        IN  a.oneBatchOnly =>
                /\ post.sched = sched
                /\ \A n \in Names \ {a.name} : post.migrations[n] = migrations[n]
                /\ o.kind = "return" =>
                        \/ post.migrations[a.name].workerId = NoWorker
                        \/ LiveWorker(a.name) /\ IsNoOp(o, a.name)

\* C24 witness: an invocation read a page that did not finish the migration
\* and left the row without a worker id and the scheduler empty, which only
\* an invocation with oneBatchOnly does.
C24_Witness ==
    /\ last.op = "migrate" /\ last.kind = "return" /\ last.ran # Undefined
    /\ ~migrations[last.name].isDone /\ migrations[last.name].error = NoError
    /\ migrations[last.name].processed >= 1
    /\ migrations[last.name].workerId = NoWorker
    /\ sched = <<>>

C27_NoOpWhileInProgress ==
    (rtc.pc = "loop" /\ rtc.busy /\ LiveWorker(rtc.name)) =>
        \A t \in now..MaxTime, e \in Envs :
            IsNoOp(migrate(LoopArgs(rtc), migrations, sched, patched, t, e[1], e[2]),
                   rtc.name)

\* C26 as stated: the status runToCompletion returns is done and its
\* processed is the number of documents of the table.
C26_ReturnsWholeTable ==
    rtc.pc = "returned" => (rtc.isDone /\ rtc.processed = NumDocs)

\* C26, amended: runToCompletion, alone and with a migration function that
\* never raises, eventually returns; the status it returns is done; and
\* its processed is the number of documents of the table when the call
\* asked for the whole table (a null cursor, or no cursor for a migration
\* that had no row).
C26_TerminatesDone ==
    /\ [](rtc.pc = "returned" =>
            (rtc.isDone /\ (rtc.fromStart => rtc.processed = NumDocs)))
    /\ (rtc.pc = "loop") ~> (rtc.pc = "returned")

\* C26 witness: a call for the whole table returned after more than one
\* iteration with every document processed.
C26_Witness ==
    /\ rtc.pc = "returned" /\ rtc.fromStart /\ rtc.iterations >= 2
    /\ rtc.isDone /\ rtc.processed = NumDocs
    /\ patched[rtc.name] = Docs

\* C28: the list getStatus returns for a list of names has the length of
\* the list asked for, its i-th status is the status of the i-th name, and
\* the status of a name without a row is unknown, with processed 0, a null
\* cursor and isDone false.
C28_StatusInInputOrder ==
    (last.op = "getStatus" /\ last.hasNames) =>
        /\ Len(last.result) = Len(last.names)
        /\ \A i \in 1..Len(last.names) :
            /\ last.result[i].name = last.names[i]
            /\ ~migrations[last.names[i]].exists =>
                    /\ last.result[i].state = "unknown"
                    /\ last.result[i].processed = 0
                    /\ last.result[i].cursor = Null
                    /\ ~last.result[i].isDone

\* C29: clearAll deletes only rows created at or before the cutoff whose
\* migration has no pending or in-progress worker.
C29_ClearKeepsLiveJobs ==
    \A before \in Cutoffs : \A t \in now..MaxTime :
        LET post == After(clearAll(before, migrations, sched, patched, t))
            cutoff == IF before = Undefined THEN t ELSE before
        IN  \A n \in Names :
                (migrations[n].exists /\ ~post.migrations[n].exists) =>
                    /\ migrations[n].creationTime <= cutoff
                    /\ ~LiveWorker(n)

\* No scheduled function is waiting or running.
ChainEnded ==
    \A id \in 1..Len(sched) : sched[id].kind \notin {"pending", "inProgress"}

\* The migrations cancelAll({sinceTs}) is to cancel: not done, created at
\* or after sinceTs when it is given.
ToCancel(sinceTs) ==
    {n \in DOMAIN migrations :
        /\ migrations[n].exists /\ ~migrations[n].isDone
        /\ sinceTs = Undefined \/ migrations[n].creationTime >= sinceTs}

\* C30: every invocation of cancelAll handles at most a page of rows; the
\* chain of invocations a call starts ends, and when it has ended cancel
\* has been applied to exactly the not-done migrations (created at or after
\* sinceTs when given), whatever their number.
C30_ChainCancelsAll ==
    /\ [](last.page <= CancelAllPage)
    /\ []((calls = 1 /\ ChainEnded) => last.visited = ToCancel(last.sinceTs))
    /\ ((calls = 1) ~> ChainEnded)

\* A chain over exactly two pages' worth of not-done migrations has ended
\* after two further invocations.
C30_Witness ==
    /\ calls = 1 /\ ChainEnded
    /\ Len(sched) = 2
    /\ Cardinality(ToCancel(Undefined)) = 2 * CancelAllPage
    /\ last.sinceTs = Undefined
    /\ last.visited = ToCancel(Undefined)

\* C31: a migrate with forceContinue = true for a migration that is done
\* calls the migration function again with the persisted cursor and adds
\* the page's count to processed; the same call without forceContinue
\* leaves processed as it is.
C31_ForceContinueRunsAgain ==
    \A n \in Names :
        (migrations[n].exists /\ migrations[n].isDone) =>
            \A strict \in BOOLEAN, t \in now..MaxTime, e \in Envs :
                LET forced == migrateWith({"forceContinue"}, strict, NoArgs(n),
                                          migrations, sched, patched, t, e[1], e[2])
                    plain == migrateWith({}, strict, NoArgs(n),
                                         migrations, sched, patched, t, e[1], e[2])
                    page == Page(migrations[n].cursor, functionDefaultBatchSize)
                IN  /\ forced.kind = "return"
                    /\ forced.ran = migrations[n].cursor
                    /\ After(forced).migrations[n].processed
                           = migrations[n].processed + Cardinality(page)
                    /\ After(plain).migrations[n].processed = migrations[n].processed

\* The self-scheduled workers of migration n that are pending or in
\* progress: the scheduled functions of n that carry a cursor.
Workers(n) == {id \in LiveTasks(n) : sched[id].args.cursor # Undefined}

\* C32: with callers that pass no cursor, the pages of a migration are
\* strictly ordered: at most one worker of it is pending or in progress, it
\* is the one recorded in the row and its cursor argument is the persisted
\* cursor; the documents written are exactly those before the persisted
\* cursor (none skipped, none twice); and every invocation that reads a page
\* reads it from the persisted cursor.
C32_PagesInCursorOrder ==
    /\ \A n \in SeriesNames :
            /\ Cardinality(Workers(n)) <= 1
            /\ \A id \in Workers(n) :
                    /\ migrations[n].workerId = id
                    /\ sched[id].args.cursor = migrations[n].cursor
            /\ patched[n] = 1..PageStart(migrations[n].cursor)
    /\ \A a \in SeriesAllArgs : \A t \in now..MaxTime, e \in Envs :
            LET o == migrate(a, migrations, sched, patched, t, e[1], e[2])
            IN  o.ran # Undefined =>
                    /\ o.ran = migrations[a.name].cursor
                    /\ Page(o.ran, NumDocs) \cap patched[a.name] = {}

\* C32 witness: a worker read the last page of a migration from a cursor an
\* earlier page had committed, after the callers had made all their calls,
\* and every document was written once.
C32_Witness ==
    /\ last.op = "worker" /\ last.kind = "return" /\ last.ran \in CursorStrings
    /\ calls = MaxCalls
    /\ migrations[last.name].isDone
    /\ patched[last.name] = Docs
    /\ migrations[last.name].processed = NumDocs

PageDocs == DOMAIN pg.at

\* C34: the handler's result counts every document of the page, and a
\* document is patched exactly when migrateOne returned a non-empty object
\* for it: one for which it returned nothing or {} is counted and not
\* patched.
C34_CountsEveryDocument ==
    /\ pg.changed \subseteq {d \in PageDocs : pg.plan[d] = "update"}
    /\ pg.pc \in {"returned", "dryRun"} => pg.processed = Cardinality(PageDocs)
    /\ pg.pc = "returned" => pg.changed = {d \in PageDocs : pg.plan[d] = "update"}

\* C34 witness: a page of two documents, one left as it is and one patched,
\* was returned with processed = 2.
C34_Witness ==
    /\ pg.pc = "returned" /\ pg.processed = 2
    /\ Cardinality(pg.changed) = 1
    /\ \E d \in PageDocs : pg.plan[d] \in {"void", "empty"}

\* The documents of the page whose migrateOne reads and rewrites the shared
\* value.
Bumps == {d \in PageDocs : pg.plan[d] = "bump"}

\* C35: with parallelize every doOne of the page has been called before any
\* of them goes on; in both modes the result is produced only when every
\* doOne has completed and none has thrown, and a throw leaves nothing
\* written; without parallelize a doOne is called only when the doOne of
\* every earlier document of the page has completed, it reads what they
\* wrote, and the shared value ends with one increment per document, while
\* with parallelize it ends with at least one and at most that many.
C35_SerialKeepsUpdates ==
    /\ (pg.parallelize /\ pg.pc = "running") =>
            \A d \in PageDocs : pg.at[d] # "new"
    /\ pg.pc \in {"returned", "dryRun"} =>
            /\ \A d \in PageDocs : pg.at[d] = "done" /\ pg.plan[d] # "raise"
    /\ pg.pc = "failed" => (pg.shared = 0 /\ pg.changed = {})
    /\ (~pg.parallelize /\ pg.pc \in {"running", "returned"}) =>
            /\ \A d \in PageDocs : pg.at[d] # "new" =>
                    \A x \in PageDocs : x < d => pg.at[x] = "done"
            /\ \A d \in PageDocs : pg.at[d] = "read" =>
                    pg.local[d] = Cardinality({x \in Bumps : x < d})
            /\ pg.shared = Cardinality({d \in Bumps : pg.at[d] = "done"})
    /\ (pg.parallelize /\ pg.pc = "returned") =>
            /\ pg.shared <= Cardinality(Bumps)
            /\ Bumps # {} => pg.shared >= 1

\* C35 witness: a parallel page of two documents that each incremented the
\* shared value was returned with the value incremented once.
C35_Witness ==
    /\ pg.parallelize /\ pg.pc = "returned"
    /\ Cardinality(Bumps) = 2
    /\ pg.shared = 1

\* The handler threw while settling its arguments, with message m: no page
\* was read.
Rejected(m) == pg.pc = "failed" /\ pg.msg = m /\ PageDocs = {}

\* The handler settled its arguments and went on to read the page.
Settled == ~Rejected(NextNeedsFnMsg) /\ ~Rejected(CursorNeededMsg)

\* The call gives no cursor: unset, or the empty string.
NoCursorGiven == pg.args.cursor \in {Undefined, EmptyString}

\* C36 as stated: a direct call without fn, (1) with neither cursor nor
\* dryRun, is a dry run from a null cursor; (2) with dryRun = true and no
\* cursor, uses a null cursor; (3) with dryRun = false and no cursor, fails
\* with the cursor error before reading a document; (4) with next passed,
\* fails before reading a document.
C36_OneOffAsStated ==
    (pg.pc # "idle" /\ ~pg.args.fn) =>
        /\ (pg.args.next = Undefined /\ NoCursorGiven /\ pg.args.dryRun = "unset") =>
                (Settled /\ pg.dryRun /\ pg.cursor = Null)
        /\ (pg.args.next = Undefined /\ NoCursorGiven /\ pg.args.dryRun = "true") =>
                (Settled /\ pg.dryRun /\ pg.cursor = Null)
        /\ (pg.args.next = Undefined /\ NoCursorGiven /\ pg.args.dryRun = "false") =>
                Rejected(CursorNeededMsg)
        /\ pg.args.next # Undefined => ~Settled

\* C36, amended: the same, where (4) holds for a non-empty next, with the
\* message that next needs fn, and an empty next is treated as no next.
C36_OneOffResolved ==
    (pg.pc # "idle" /\ ~pg.args.fn) =>
        LET noNext == pg.args.next = Undefined \/ pg.args.next = 0
        IN  /\ (noNext /\ NoCursorGiven /\ pg.args.dryRun \in {"unset", "true"}) =>
                    (Settled /\ pg.dryRun /\ pg.cursor = Null)
            /\ (noNext /\ NoCursorGiven /\ pg.args.dryRun = "false") =>
                    Rejected(CursorNeededMsg)
            /\ ~noNext => Rejected(NextNeedsFnMsg)
            /\ (noNext /\ ~NoCursorGiven) =>
                    /\ pg.cursor = pg.args.cursor
                    /\ pg.dryRun = (pg.args.dryRun = "true")
                    /\ Settled

\* C36 witness: a call with neither cursor nor dryRun completed as a dry
\* run of the first page.
C36_Witness ==
    /\ pg.pc = "dryRun" /\ ~pg.args.fn
    /\ pg.args.cursor = Undefined /\ pg.args.dryRun = "unset"
    /\ pg.cursor = Null /\ pg.processed = 1

\* C37: whenever a migrate called as a dry run ends with the DRY RUN
\* signal, the status the signal carries has the cursor, processed, isDone
\* and error of the status the same call made for real returns and commits
\* from the same state, and it carries the batch size and the names of the
\* series of the call.
C37_DryRunMatchesRealRun ==
    \A a \in AllArgs : \A t \in now..MaxTime, e \in Envs :
        LET dry == migrate([a EXCEPT !.dryRun = TRUE],
                           migrations, sched, patched, t, e[1], e[2])
            real == migrate([a EXCEPT !.dryRun = FALSE],
                            migrations, sched, patched, t, e[1], e[2])
            row == After(real).migrations[a.name]
        IN  dry.kind = "dryRun" =>
                /\ real.kind = "return"
                /\ dry.status.cursor = real.status.cursor
                /\ dry.status.processed = real.status.processed
                /\ dry.status.isDone = real.status.isDone
                /\ dry.status.error = real.status.error
                /\ row.cursor = dry.status.cursor
                /\ row.processed = dry.status.processed
                /\ row.isDone = dry.status.isDone
                /\ row.error = dry.status.error
                /\ dry.status.batchSize = a.batchSize
                /\ dry.status.next = NextNames(a.next)

\* The scheduled migrate functions the scheduler is running.
Running == {id \in 1..Len(sched) :
               sched[id].fn = "migrate" /\ sched[id].kind = "inProgress"}

\* C38: a migration that is done is made not done again, or has processed
\* or its cursor set back, only by a caller's migrate that carries an
\* explicit cursor; a scheduled migrate that the scheduler runs, a stale one
\* included, reads no page of a done migration and leaves its cursor, isDone
\* and processed as they are.
C38_OnlyCallersRewind ==
    /\ \A a \in ExtArgs : \A t \in now..MaxTime, e \in Envs :
            LET o == migrate(a, migrations, sched, patched, t, e[1], e[2])
                row == After(o).migrations[a.name]
            IN  (migrations[a.name].isDone
                    /\ (~row.isDone \/ row.processed < migrations[a.name].processed)) =>
                        a.cursor # Undefined
    /\ \A id \in Running : \A t \in now..MaxTime, e \in Envs :
            LET a == sched[id].args
                o == migrate(a, migrations, sched, patched, t, e[1], e[2])
                row == After(o).migrations[a.name]
            IN  migrations[a.name].isDone =>
                    /\ o.ran = Undefined
                    /\ row.isDone
                    /\ row.cursor = migrations[a.name].cursor
                    /\ row.processed = migrations[a.name].processed

\* C39: whenever the workerId of a migration's row is a pending scheduled
\* function, that function is a migrate of the same migration whose cursor
\* argument is the persisted cursor; and the worker an invocation schedules
\* has the arguments of that invocation (batch size, series, and the rest)
\* with the cursor it commits.
C39_PendingWorkerMatchesRow ==
    /\ \A n \in Names :
            LET w == migrations[n].workerId
            IN  (w # NoWorker /\ SystemGet(sched, w).kind = "pending") =>
                    /\ sched[w].fn = "migrate"
                    /\ sched[w].args.name = n
                    /\ sched[w].args.cursor = migrations[n].cursor
    /\ \A a \in AllArgs : \A t \in now..MaxTime, e \in Envs :
            LET o == migrate(a, migrations, sched, patched, t, e[1], e[2])
                post == After(o)
                w == post.migrations[a.name].workerId
            IN  (w # NoWorker /\ w > Len(sched)) =>
                    /\ post.sched[w].kind = "pending"
                    /\ post.sched[w].fn = "migrate"
                    /\ post.sched[w].args
                           = [a EXCEPT !.cursor = post.migrations[a.name].cursor]

\* C39 witness: the worker of a migration started with a series is pending
\* after its first page, carrying the series and the committed cursor.
C39_Witness ==
    \E n \in Names :
        LET w == migrations[n].workerId
        IN  /\ w # NoWorker /\ SystemGet(sched, w).kind = "pending"
            /\ sched[w].args.next # <<>>
            /\ sched[w].args.cursor \in CursorStrings
            /\ sched[w].args.cursor = migrations[n].cursor

\* The three conditions a committed page leaves the row `m` in, given the
\* scheduler `sch` of the commit and the number `before` of scheduled
\* functions before the invocation.
DoneNoWorker(m) == m.isDone /\ m.workerId = NoWorker

FailedNoWorker(m) == m.error # NoError /\ m.workerId = NoWorker /\ ~m.isDone

ContinuesWithNewWorker(m, sch, before) ==
    /\ ~m.isDone /\ m.error = NoError
    /\ m.workerId # NoWorker /\ m.workerId > before
    /\ SystemGet(sch, m.workerId).kind = "pending"

\* C40: every migrate invocation that is not a dry run, is without
\* oneBatchOnly and commits after calling the migration function leaves the
\* row in exactly one of three conditions: done with no worker; error set,
\* no worker, not done; or not done, no error and workerId naming a newly
\* scheduled pending function.  It never leaves the row not done, without
\* error and without worker.
C40_OneOfThreeConditions ==
    \A a \in AllArgs : \A t \in now..MaxTime, e \in Envs :
        LET o == migrate(a, migrations, sched, patched, t, e[1], e[2])
            m == After(o).migrations[a.name]
            conds == <<DoneNoWorker(m), FailedNoWorker(m),
                       ContinuesWithNewWorker(m, After(o).sched, Len(sched))>>
        IN  (~a.dryRun /\ ~a.oneBatchOnly /\ o.kind = "return" /\ o.ran # Undefined) =>
                /\ Cardinality({i \in 1..3 : conds[i]}) = 1
                /\ ~(~m.isDone /\ m.error = NoError /\ m.workerId = NoWorker)

\* C40 witness: one migration was left failed by a committed page (error
\* set, no worker, not done) while the last invocation, a committed page that
\* was no dry run, left its migration not done with a pending worker.
C40_Witness ==
    /\ last.op \in {"migrate", "worker"} /\ last.kind = "return" /\ ~last.dryRun
    /\ last.ran # Undefined
    /\ ContinuesWithNewWorker(migrations[last.name], sched, 0)
    /\ migrations[last.name].workerId = Len(sched)
    /\ \E n \in Names : FailedNoWorker(migrations[n]) /\ migrations[n].exists

====
